---- MODULE Spec2Model ----
(***************************************************************************)
(* TeleLink: the SQLite persistence layer (telelink/db.py), the link       *)
(* extraction engine (telelink/link_extractor.py) and the scrape session   *)
(* that joins them (telelink/telegram_client.py, telelink/ui/app.py).      *)
(* The import of an HTML export, TelethonWrapper.connect and the           *)
(* TelethonManager that hands out the client are modelled as well.         *)
(*                                                                         *)
(* Strings of the program that the code only compares or copies (channel   *)
(* names, dates, message texts of the store) are TLA+ strings.  A URL or a *)
(* text that the code scans is a sequence of tokens, each token standing   *)
(* for the characters it spells: <<"http://", "x", "/">> is "http://x/".   *)
(* A value that may be None is the record Some(v) or NoneV.                *)
(*                                                                         *)
(* A table is a bag of rows.  The surrogate key (id INTEGER PRIMARY KEY    *)
(* AUTOINCREMENT) and the DEFAULT (datetime('now')) columns are left out   *)
(* of the rows: two rows that agree on every other column are two copies   *)
(* in the bag.                                                             *)
(***************************************************************************)
EXTENDS Integers, Sequences, FiniteSets, Bags, TLC

VARIABLES
    messages,   \* table messages  (db.py:15-25)
    links,      \* table links     (db.py:27-39)
    channels,   \* table channels  (db.py:41-49)
    last,       \* the last call made on the store: its name, the channel or the
                \* number of rows it was given, and what it returned
    uncommitted,    \* the rows the connection has written and not committed
    message_dict,   \* extract_links: the message it was called with
    raw_message,    \* extract_links: the telethon message, or None
    seen_keys,      \* extract_links: the local seen_keys
    results,        \* extract_links: the local results
    pc,             \* extract_links: the number of methods that have run
    calls,          \* calls of extract_links by several callers: for each
                    \* caller the arguments and locals of its call
    scraping,       \* st.session_state["scraping"]
    stop_event,     \* the session's asyncio.Event: set or not
    state,          \* the session's state dict: fetched, links, msgs, link_recs
    bg_progress,    \* bg_progress["count"]
    task,           \* the background task of _do_scrape and its iterator
    ui,             \* where the UI thread stands in the scrape of the channel
    session,        \* the options the running session was started with
    history,        \* the sessions that have ended, oldest first
    session_channels,   \* st.session_state["channels"]: the names listed
    connecting,     \* TelethonWrapper.connect(): where a call stands, its
                    \* attempts, its sleeps and how it ended
    manager,        \* the TelethonManager: _client, the credentials it was
                    \* made with, the wrappers created and disconnected
    getting         \* get_client: for each caller where its call stands

storeVars == <<messages, links, channels, last, uncommitted>>
extractVars == <<message_dict, raw_message, seen_keys, results, pc, calls>>
scrapeVars ==
    <<scraping, stop_event, state, bg_progress, task, ui, session, history,
      session_channels>>
clientVars == <<connecting, manager, getting>>
vars == <<storeVars, extractVars, scrapeVars, clientVars>>

Some(v) == [some |-> TRUE, val |-> v]
NoneV == [some |-> FALSE, val |-> <<>>]

(***************************************************************************)
(* Bounds of the model.                                                    *)
(***************************************************************************)
MaxBatch == 3       \* a batch handed to save_messages has at most MaxBatch rows
MaxLinkBatch == 2   \* a batch handed to save_links has at most MaxLinkBatch rows
MaxWords == 2       \* a text handed to extract_links has at most MaxWords words
NumMessages == 3    \* the channel on the server holds the messages 1..NumMessages
MaxSessions == 2    \* scrape sessions started on the channel
BatchSize == 2      \* stands for BATCH_SIZE (config.py:23), the flush threshold

MainChannel == "c"
OtherChannel == "d"
Channels == {MainChannel, OtherChannel}

\* Message ids a channel's batches carry: the main channel has two, the other
\* channel one (it shares id 1 with the main channel).
IdsOf(ch) == IF ch = MainChannel THEN {1, 2} ELSE {1}

SeqsUpTo(S, n) == UNION {[1..k -> S] : k \in 0..n}

(***************************************************************************)
(* Tokens.  Upper-case tokens spell the upper-case form of the lower-case  *)
(* ones; every other token has no case.                                    *)
(***************************************************************************)
LowerToken(t) ==
    CASE t = "HTTP://" -> "http://"
      [] t = "HTTP:" -> "http:"
      [] t = "X" -> "x"
      [] t = "WWW." -> "www."
      [] OTHER -> t

\* str.lower()
Lower(s) == [i \in 1..Len(s) |-> LowerToken(s[i])]

\* s[from:to] of Python for 0 <= from: the elements from+1..to, cut at the end.
Slice(s, from, to) ==
    LET hi == IF to < Len(s) THEN to ELSE Len(s)
    IN IF hi <= from THEN <<>> ELSE SubSeq(s, from + 1, hi)

(***************************************************************************)
(* The schema: the UNIQUE constraint of each table (db.py:14-50).          *)
(***************************************************************************)
\* Mutant: the links constraint without the url, UNIQUE(channel_name, message_id).
UniqueKeyLinksWithoutUrl(table, row) ==
    CASE table = "messages" -> <<row.channel_name, row.message_id>>
      [] table = "links"    -> <<row.channel_name, row.message_id>>
      [] table = "channels" -> <<row.channel_name>>

UniqueKey(table, row) ==
    CASE table = "messages" -> <<row.channel_name, row.message_id>>
      [] table = "links"    -> <<row.channel_name, row.message_id, row.url>>
      [] table = "channels" -> <<row.channel_name>>

Rows(bag) == BagToSet(bag)

\* Mutant: the schema without its UNIQUE constraints, every row is inserted.
InsertNoConstraint(table, bag, row) ==
    [bag |-> bag (+) SetToBag({row}), changes |-> 1]

\* Mutant: INSERT OR REPLACE, the new row takes the place of the stored one.
InsertOrReplace(table, bag, row) ==
    LET keep == {r \in BagToSet(bag) : UniqueKey(table, r) # UniqueKey(table, row)}
    IN [bag |-> [r \in keep |-> bag[r]] (+) SetToBag({row}), changes |-> 1]

\* INSERT OR IGNORE of one row: a row whose UNIQUE key is already in the
\* table is skipped and changes nothing.  "changes" is sqlite3_changes().
InsertOrIgnore(table, bag, row) ==
    IF \E r \in Rows(bag) : UniqueKey(table, r) = UniqueKey(table, row)
    THEN [bag |-> bag, changes |-> 0]
    ELSE [bag |-> bag (+) SetToBag({row}), changes |-> 1]

\* Mutant: the rows handed over are counted, not the rows inserted.
RECURSIVE ExecuteManyCountAll(_, _, _)
ExecuteManyCountAll(table, bag, rows) ==
    IF rows = <<>> THEN [bag |-> bag, rowcount |-> 0]
    ELSE LET one == InsertOrIgnore(table, bag, Head(rows))
             rest == ExecuteManyCountAll(table, one.bag, Tail(rows))
         IN [bag |-> rest.bag, rowcount |-> 1 + rest.rowcount]

\* conn.commit(): every row the connection has written is durable.  The
\* tables are what the connection reads; `uncommitted` holds the rows of them
\* a call wrote before it raised, which no commit has followed yet.
NothingPending == [messages |-> {}, links |-> {}]

Commit == uncommitted' = NothingPending

\* cursor.executemany(INSERT OR IGNORE ..., rows): the rows in order, each
\* against the table the rows before it left; cursor.rowcount sums the changes.
RECURSIVE ExecuteMany(_, _, _)
ExecuteMany(table, bag, rows) ==
    IF rows = <<>> THEN [bag |-> bag, rowcount |-> 0]
    ELSE LET one == InsertOrIgnore(table, bag, Head(rows))
             rest == ExecuteMany(table, one.bag, Tail(rows))
         IN [bag |-> rest.bag, rowcount |-> one.changes + rest.rowcount]

\* Mutant: DELETE FROM <table> without the WHERE clause.
DeleteAll(bag, ch) == EmptyBag

\* DELETE FROM <table> WHERE channel_name = ?
DeleteChannel(bag, ch) ==
    LET keep == {r \in Rows(bag) : r.channel_name # ch}
    IN [r \in keep |-> bag[r]]

(***************************************************************************)
(* save_messages (db.py:66-87)                                             *)
(***************************************************************************)
\* The tuple save_messages builds from one message dict.
MessageRow(m) ==
    [message_id   |-> m.message_id,
     channel_name |-> m.channel_name,
     sender_id    |-> m.sender_id,
     message_text |-> m.text,
     message_date |-> m.date,
     has_link     |-> IF m.has_link THEN 1 ELSE 0]

MessageRows(batch) == [i \in 1..Len(batch) |-> MessageRow(batch[i])]

\* What save_messages makes of a table: the table it commits and the
\* cursor.rowcount it returns.
SaveMessagesResult(bag, batch) == ExecuteMany("messages", bag, MessageRows(batch))

save_messages(batch) ==
    LET res == SaveMessagesResult(messages, batch)
    IN /\ messages' = res.bag
       /\ last' = [op |-> "save_messages", ch |-> "", n |-> Len(batch),
                   ret |-> res.rowcount]
       /\ Commit
       /\ UNCHANGED <<links, channels>>

(***************************************************************************)
(* save_links (db.py:90-113)                                               *)
(***************************************************************************)
\* The tuple save_links builds from one LinkRecord.  message_date becomes
\* str(date), or "" when it is None or empty: a date is a string here, and ""
\* stands for None as well.
LinkRow(lr) ==
    [url          |-> lr.url,
     domain       |-> lr.domain,
     anchor_text  |-> lr.anchor_text,
     source       |-> lr.source,
     message_id   |-> lr.message_id,
     message_date |-> IF lr.message_date # "" THEN lr.message_date ELSE "",
     channel_name |-> lr.channel_name,
     forward_from |-> lr.forward_from]

LinkRows(batch) == [i \in 1..Len(batch) |-> LinkRow(batch[i])]

SaveLinksResult(bag, batch) == ExecuteMany("links", bag, LinkRows(batch))

save_links(batch) ==
    LET res == SaveLinksResult(links, batch)
    IN /\ links' = res.bag
       /\ last' = [op |-> "save_links", ch |-> "", n |-> Len(batch),
                   ret |-> res.rowcount]
       /\ Commit
       /\ UNCHANGED <<messages, channels>>

(***************************************************************************)
(* upsert_channel (db.py:116-137)                                          *)
(***************************************************************************)
ChannelRow(info) ==
    [channel_name  |-> info.channel_name,
     display_name  |-> info.display_name,
     member_count  |-> info.member_count,
     last_scraped  |-> info.last_scraped,
     message_count |-> info.message_count,
     link_count    |-> info.link_count]

\* Mutant: INSERT OR IGNORE, a stored row stays as it is.
UpsertKeepsStored(bag, row) ==
    IF \E r \in Rows(bag) : r.channel_name = row.channel_name THEN bag
    ELSE bag (+) SetToBag({row})

\* INSERT ... ON CONFLICT(channel_name) DO UPDATE SET every other column.
Upsert(bag, row) ==
    LET same == {r \in Rows(bag) : r.channel_name = row.channel_name}
    IN IF same = {} THEN bag (+) SetToBag({row})
       ELSE LET keep == Rows(bag) \ same
                kept == [r \in keep |-> bag[r]]
                n == BagCardinality([r \in same |-> bag[r]])
            IN kept (+) [r \in {row} |-> n]

upsert_channel(info) ==
    /\ channels' = Upsert(channels, ChannelRow(info))
    /\ last' = [op |-> "upsert_channel", ch |-> info.channel_name, n |-> 1, ret |-> 0]
    /\ Commit
    /\ UNCHANGED <<messages, links>>

(***************************************************************************)
(* clear_channel (db.py:236-240)                                           *)
(***************************************************************************)
\* The rows of a channel in the three tables together.
RowsOfChannel(ch) ==
    BagCardinality(messages) - BagCardinality(DeleteChannel(messages, ch))
    + BagCardinality(links) - BagCardinality(DeleteChannel(links, ch))
    + BagCardinality(channels) - BagCardinality(DeleteChannel(channels, ch))

\* Mutant: the loop runs over ("messages", "channels") only.
clear_channel_skips_links(ch) ==
    /\ messages' = DeleteChannel(messages, ch)
    /\ channels' = DeleteChannel(channels, ch)
    /\ last' = [op |-> "clear_channel", ch |-> ch, n |-> RowsOfChannel(ch), ret |-> 0]
    /\ Commit
    /\ UNCHANGED links

\* last.n is the number of rows the call deleted.
clear_channel(ch) ==
    /\ messages' = DeleteChannel(messages, ch)
    /\ links' = DeleteChannel(links, ch)
    /\ channels' = DeleteChannel(channels, ch)
    /\ last' = [op |-> "clear_channel", ch |-> ch, n |-> RowsOfChannel(ch), ret |-> 0]
    /\ Commit

(***************************************************************************)
(* get_last_message_id (db.py:227-233)                                     *)
(***************************************************************************)
\* Mutant: the MAX is taken over every channel.
get_last_message_id_any_channel(ch) ==
    LET ids == {r.message_id : r \in Rows(messages)}
    IN IF ids = {} THEN 0
       ELSE CHOOSE m \in ids : \A i \in ids : i <= m

\* SELECT COALESCE(MAX(message_id), 0) FROM messages WHERE channel_name = ?
get_last_message_id(ch) ==
    LET ids == {r.message_id : r \in {x \in Rows(messages) : x.channel_name = ch}}
    IN IF ids = {} THEN 0
       ELSE CHOOSE m \in ids : \A i \in ids : i <= m

(***************************************************************************)
(* get_messages, get_links, get_channel_stats (db.py:142-208)              *)
(***************************************************************************)
\* x LIKE '%keyword%': keyword occurs in x, letters compared without case.
Like(x, keyword) ==
    \E i \in 0..Len(x) : Slice(Lower(x), i, i + Len(keyword)) = Lower(keyword)

\* The filters of get_messages.  A filter that is None or empty is "" (channel),
\* <<>> (keyword) or NoneV (has_link); the channel "All" filters nothing.
MessageMatches(r, channel, keyword, has_link) ==
    /\ (channel # "" /\ channel # "All") => r.channel_name = channel
    /\ keyword # <<>> => Like(r.message_text, keyword)
    /\ has_link.some => r.has_link = (IF has_link.val THEN 1 ELSE 0)

\* The rows get_messages returns, as a bag (their order is message_date DESC).
get_messages(channel, keyword, has_link) ==
    LET hit == {r \in Rows(messages) : MessageMatches(r, channel, keyword, has_link)}
    IN [r \in hit |-> messages[r]]

LinkMatches(r, channel, domain, search) ==
    /\ (channel # "" /\ channel # "All") => r.channel_name = channel
    /\ (domain # <<>> /\ domain # <<"All">>) => r.domain = domain
    /\ search # <<>> => Like(r.url, search)

\* The rows get_links returns with unique_only = False, as a bag.
get_links(channel, domain, search) ==
    LET hit == {r \in Rows(links) : LinkMatches(r, channel, domain, search)}
    IN [r \in hit |-> links[r]]

\* get_channel_list (db.py:219-224): SELECT DISTINCT channel_name FROM channels
get_channel_list == {r.channel_name : r \in Rows(channels)}
\* SELECT * FROM channels
get_channel_stats == channels

(***************************************************************************)
(* _extract_domain (link_extractor.py:55-61)                               *)
(***************************************************************************)
SchemeTokens == {"http://", "HTTP://"}
\* The characters that end the network location in urllib.parse.urlsplit.
NetlocEnd == {"/", "?", "#"}

RECURSIVE TakeNetloc(_)
TakeNetloc(s) ==
    IF s = <<>> \/ Head(s) \in NetlocEnd THEN <<>>
    ELSE <<Head(s)>> \o TakeNetloc(Tail(s))

\* urlparse(url).netloc: what follows "scheme://" up to the first of / ? #,
\* and "" when the string does not start with a scheme and "//".
Netloc(url) ==
    IF url # <<>> /\ Head(url) \in SchemeTokens THEN TakeNetloc(Tail(url)) ELSE <<>>

\* str.replace("www.", ""): every occurrence goes, wherever it stands.
RECURSIVE ReplaceWww(_)
ReplaceWww(s) ==
    IF s = <<>> THEN <<>>
    ELSE IF Head(s) = "www." THEN ReplaceWww(Tail(s))
    ELSE <<Head(s)>> \o ReplaceWww(Tail(s))

\* urlparse raises ValueError on an unbalanced "[" in the network location
\* ("Invalid IPv6 URL"); _extract_domain catches it and returns "".
UrlparseRaises(url) ==
    LET n == Netloc(url)
        has(t) == \E i \in 1..Len(n) : n[i] = t
    IN (has("[") /\ ~has("]")) \/ (has("]") /\ ~has("["))

_extract_domain(url) ==
    IF UrlparseRaises(url) THEN <<>>
    ELSE LET netloc == Netloc(url)
         IN IF netloc # <<>> THEN ReplaceWww(netloc) ELSE <<>>

(***************************************************************************)
(* _dedup_key (link_extractor.py:64-65)                                    *)
(***************************************************************************)
RECURSIVE DropLeadingSlashes(_)
DropLeadingSlashes(s) ==
    IF s # <<>> /\ Head(s) = "/" THEN DropLeadingSlashes(Tail(s)) ELSE s

RECURSIVE DropTrailingSlashes(_)
DropTrailingSlashes(s) ==
    IF s # <<>> /\ s[Len(s)] = "/" THEN DropTrailingSlashes(SubSeq(s, 1, Len(s) - 1))
    ELSE s

\* A scheme token at the end of the string loses its two slashes as well.
StripSchemeEnd(s) ==
    IF s = <<>> THEN s
    ELSE LET t == s[Len(s)]
         IN IF t = "http://" THEN [s EXCEPT ![Len(s)] = "http:"]
            ELSE IF t = "HTTP://" THEN [s EXCEPT ![Len(s)] = "HTTP:"]
            ELSE s

\* str.strip("/"): every "/" at either end goes.
StripSlashes(s) == StripSchemeEnd(DropTrailingSlashes(DropLeadingSlashes(s)))

\* Mutant: the key is the URL as it stands.
_dedup_key_raw(message_id, url) == <<message_id, url>>

_dedup_key(message_id, url) == <<message_id, Lower(StripSlashes(url))>>

(***************************************************************************)
(* get_links with unique_only = True (db.py:191-198)                       *)
(***************************************************************************)
\* The message_date strings of the model in the order SQLite compares TEXT,
\* byte by byte: "" first, then the day-first dates of an HTML export
\* ("DD.MM.YYYY HH:MM:SS", html_import.py:40-42, 79), then the ISO dates.
DatesInTextOrder ==
    <<"", "01.02.2025 10:00:00", "15.01.2024 10:00:00",
      "2026-01-01", "2026-01-02", "2026-01-03", "2026-01-04", "2026-01-05">>

TextRank(d) == CHOOSE i \in 1..Len(DatesInTextOrder) : DatesInTextOrder[i] = d

\* MIN(message_date) over rows.
MinMessageDate(rows) ==
    CHOOSE d \in {r.message_date : r \in rows} :
        \A r \in rows : TextRank(d) <= TextRank(r.message_date)

\* Mutant: the rows are grouped by the dedup key of the URL.
GroupKeyNormalized(r) == Lower(StripSlashes(r.url))

\* GROUP BY url
GroupKey(r) == r.url

\* The rows get_links returns with unique_only = True: one per group, with
\* MIN(message_date); its other columns are those of a row of the group that
\* has this date (from).
get_links_unique(channel, domain, search) ==
    LET hit == {r \in Rows(links) : LinkMatches(r, channel, domain, search)}
        group(k) == {r \in hit : GroupKey(r) = k}
    IN {[message_date |-> MinMessageDate(group(k)),
         from |-> {r \in group(k) : r.message_date = MinMessageDate(group(k))}] :
            k \in {GroupKey(r) : r \in hit}}

(***************************************************************************)
(* URL_REGEX (link_extractor.py:49-52)                                     *)
(***************************************************************************)
\* The characters the pattern's class excludes: white space and <>"{}|\^`[]'()
RegexExcluded ==
    {" ", "<", ">", "\"", "{", "}", "|", "\\", "^", "`", "[", "]", "'", "(", ")"}

\* The end of the longest run of allowed tokens that starts at position i.
RECURSIVE RunEnd(_, _)
RunEnd(text, i) ==
    IF i + 1 <= Len(text) /\ text[i + 1] \notin RegexExcluded THEN RunEnd(text, i + 1)
    ELSE i

\* URL_REGEX.findall(text) from position i on: https?:// in either case, then
\* one or more allowed characters, matches taken left to right without overlap.
RECURSIVE FindAllFrom(_, _)
FindAllFrom(text, i) ==
    IF i > Len(text) THEN <<>>
    ELSE IF /\ text[i] \in SchemeTokens
            /\ i + 1 <= Len(text)
            /\ text[i + 1] \notin RegexExcluded
         THEN <<SubSeq(text, i, RunEnd(text, i + 1))>>
                  \o FindAllFrom(text, RunEnd(text, i + 1) + 1)
         ELSE FindAllFrom(text, i + 1)

FindAll(text) == FindAllFrom(text, 1)

(***************************************************************************)
(* extract_links (link_extractor.py:70-161)                                *)
(***************************************************************************)
\* The telethon types were imported (link_extractor.py:20-31).
TelethonImported == TRUE

\* Mutant: the record holds the normalized URL.
LinkRecordNormalized(md, url, source, anchor) ==
    [url |-> Lower(StripSlashes(url)), domain |-> _extract_domain(url),
     anchor_text |-> anchor, source |-> source, message_id |-> md.message_id,
     message_date |-> md.date, channel_name |-> md.channel_name,
     forward_from |-> md.forward_from]

\* LinkRecord(...) as _add builds it for a message (link_extractor.py:104-113).
LinkRecord(md, url, source, anchor) ==
    [url |-> url, domain |-> _extract_domain(url), anchor_text |-> anchor,
     source |-> source, message_id |-> md.message_id,
     message_date |-> md.date,
     channel_name |-> md.channel_name,
     forward_from |-> md.forward_from]

\* Mutant: a URL without a domain is dropped.
_add_skips_no_domain(md, st, url, source, anchor) ==
    LET key == _dedup_key(md.message_id, url)
    IN IF key \in st.seen_keys \/ _extract_domain(url) = <<>> THEN st
       ELSE [seen_keys |-> st.seen_keys \cup {key},
             results |-> Append(st.results, LinkRecord(md, url, source, anchor))]

\* _add: st is <<seen_keys, results>> as the record [seen_keys, results].
_add(md, st, url, source, anchor) ==
    LET key == _dedup_key(md.message_id, url)
    IN IF key \in st.seen_keys THEN st
       ELSE [seen_keys |-> st.seen_keys \cup {key},
             results |-> Append(st.results, LinkRecord(md, url, source, anchor))]

\* Mutant: the finds of a method are added last to first.
RECURSIVE AddAllReversed(_, _, _)
AddAllReversed(md, st, finds) ==
    IF finds = <<>> THEN st
    ELSE LET f == finds[Len(finds)]
         IN AddAllReversed(md, _add(md, st, f.url, f.source, f.anchor),
                           SubSeq(finds, 1, Len(finds) - 1))
\* _add for each of a method's finds, in the order the method makes them.
RECURSIVE AddAll(_, _, _)
AddAll(md, st, finds) ==
    IF finds = <<>> THEN st
    ELSE AddAll(md,
                _add(md, st, Head(finds).url, Head(finds).source, Head(finds).anchor),
                Tail(finds))

Find(url, source, anchor) == [url |-> url, source |-> source, anchor |-> anchor]

\* entities = getattr(raw_message, "entities", None) or []
EntitiesOf(raw) ==
    IF raw.some /\ raw.val.entities.some
    THEN raw.val.entities.val ELSE <<>>

IsTextUrl(ent) == ent.type = "MessageEntityTextUrl"
IsUrl(ent) == ent.type = "MessageEntityUrl"

\* Method 1: the MessageEntityTextUrl entities, anchor = the span of the text.
Method1Finds(md, raw) ==
    IF ~TelethonImported THEN <<>>
    ELSE LET ents == SelectSeq(EntitiesOf(raw), IsTextUrl)
         IN [i \in 1..Len(ents) |->
                Find(ents[i].url, "entity_texturl",
                     Some(Slice(md.text, ents[i].offset,
                                ents[i].offset + ents[i].length)))]

\* Method 2: the MessageEntityUrl entities, the URL is the span of the text.
Method2Finds(md, raw) ==
    IF ~TelethonImported THEN <<>>
    ELSE LET ents == SelectSeq(EntitiesOf(raw), IsUrl)
         IN [i \in 1..Len(ents) |->
                Find(Slice(md.text, ents[i].offset,
                           ents[i].offset + ents[i].length),
                     "entity_url", NoneV)]

\* Mutant: the matches are taken from right to left.
Method3FindsReversed(md, raw) ==
    LET urls == FindAll(md.text)
    IN [i \in 1..Len(urls) |-> Find(urls[Len(urls) + 1 - i], "regex", NoneV)]

\* Method 3: the regex over the text.
Method3Finds(md, raw) ==
    LET urls == FindAll(md.text)
    IN [i \in 1..Len(urls) |-> Find(urls[i], "regex", NoneV)]

RECURSIVE Flatten(_)
Flatten(rows) == IF rows = <<>> THEN <<>> ELSE Head(rows) \o Flatten(Tail(rows))

HasUrl(button) == button.url.some /\ button.url.val # <<>>

\* Method 4: the buttons of reply_markup.rows that carry a non-empty url.
Method4Finds(md, raw) ==
    IF raw.some /\ raw.val.reply_markup.some
    THEN LET btns == SelectSeq(Flatten(raw.val.reply_markup.val), HasUrl)
         IN [i \in 1..Len(btns) |-> Find(btns[i].url.val, "button", Some(btns[i].text))]
    ELSE <<>>

\* Method 5: the url of a MessageMediaWebPage's webpage, when it has one.
Method5Finds(md, raw) ==
    IF /\ raw.some
       /\ TelethonImported
       /\ raw.val.media.some
       /\ raw.val.media.val.type = "MessageMediaWebPage"
       /\ raw.val.media.val.url.some
       /\ raw.val.media.val.url.val # <<>>
    THEN <<Find(raw.val.media.val.url.val, "webpage_preview", NoneV)>>
    ELSE <<>>

\* Mutant: the regex runs before the entity methods.
MethodFindsRegexFirst(k, md, raw) ==
    CASE k = 1 -> Method3Finds(md, raw)
      [] k = 2 -> Method1Finds(md, raw)
      [] k = 3 -> Method2Finds(md, raw)
      [] k = 4 -> Method4Finds(md, raw)
      [] k = 5 -> Method5Finds(md, raw)

MethodFinds(k, md, raw) ==
    CASE k = 1 -> Method1Finds(md, raw)
      [] k = 2 -> Method2Finds(md, raw)
      [] k = 3 -> Method3Finds(md, raw)
      [] k = 4 -> Method4Finds(md, raw)
      [] k = 5 -> Method5Finds(md, raw)

NoLinks == [seen_keys |-> {}, results |-> <<>>]

\* seen_keys and results after the methods 1..k ran.
RECURSIVE AfterMethod(_, _, _)
AfterMethod(k, md, raw) ==
    IF k = 0 THEN NoLinks
    ELSE AddAll(md, AfterMethod(k - 1, md, raw),
                MethodFinds(k, md, raw))

extract_links(md, raw) == AfterMethod(5, md, raw).results

(***************************************************************************)
(* The inputs the store is driven with.                                    *)
(***************************************************************************)
MsgPayloads ==
    {[sender_id |-> 100, text |-> <<"hello">>, date |-> "2026-01-01", has_link |-> FALSE],
     [sender_id |-> 200, text |-> <<"http://", "x">>, date |-> "2026-01-02", has_link |-> TRUE]}

MsgDict(ch, id, p) ==
    [message_id |-> id, channel_name |-> ch, sender_id |-> p.sender_id,
     text |-> p.text, date |-> p.date, has_link |-> p.has_link]

LinkedPayload == CHOOSE q \in MsgPayloads : q.has_link
PayloadsOf(ch) == IF ch = MainChannel THEN MsgPayloads ELSE {LinkedPayload}

MsgDicts(ch) == {MsgDict(ch, id, p) : id \in IdsOf(ch), p \in PayloadsOf(ch)}

\* A batch is what one flush of one channel's session hands over
\* (ui/app.py:763-773, 811-814): rows of one channel.
MsgBatches == UNION {SeqsUpTo(MsgDicts(ch), MaxBatch) : ch \in Channels}
MsgBatchesSmall == {<<MsgDict(MainChannel, 1, LinkedPayload)>>}

StoreUrls == {<<"http://", "x">>, <<"http://", "x", "/">>}
FirstUrl == <<"http://", "x">>

LinkPayloads ==
    {[source |-> "entity_texturl", anchor_text |-> Some(<<"here">>), message_date |-> "2026-01-01"],
     [source |-> "regex", anchor_text |-> NoneV, message_date |-> ""]}

StoreLinkRecord(ch, id, url, p) ==
    [url |-> url, domain |-> _extract_domain(url), anchor_text |-> p.anchor_text,
     source |-> p.source, message_id |-> id, message_date |-> p.message_date,
     channel_name |-> ch, forward_from |-> NoneV]

\* The (message_id, url) pairs of a channel's link batches: the main channel
\* has both URLs on message 1 and the first URL on every other message.
LinkSlots(ch) ==
    {<<id, u>> \in IdsOf(ch) \X StoreUrls : id = 1 \/ u = FirstUrl}
        \ (IF ch = MainChannel THEN {} ELSE {<<1, u>> : u \in StoreUrls \ {FirstUrl}})

RegexPayload == CHOOSE q \in LinkPayloads : q.source = "regex"
LinkPayloadsOf(ch) == IF ch = MainChannel THEN LinkPayloads ELSE {RegexPayload}

LinkRecords(ch) ==
    {StoreLinkRecord(ch, s[1], s[2], p) : s \in LinkSlots(ch), p \in LinkPayloadsOf(ch)}

LinkBatches == UNION {SeqsUpTo(LinkRecords(ch), MaxLinkBatch) : ch \in Channels}
LinkBatchesSmall ==
    {<<StoreLinkRecord(ch, 1, FirstUrl, p)>> : ch \in Channels, p \in {RegexPayload}}

ChannelInfo(ch, message_count, link_count) ==
    [channel_name |-> ch, display_name |-> "Channel", member_count |-> 500,
     last_scraped |-> "2026-01-03", message_count |-> message_count,
     link_count |-> link_count]

ChannelInfos == {ChannelInfo(ch, 0, 0) : ch \in Channels}
ChannelInfosSmall == {ChannelInfo(MainChannel, 0, 0)}

\* A second dict for the main channel that differs in every field but the name.
ChannelInfosVaried ==
    ChannelInfos \cup
    {[channel_name |-> MainChannel, display_name |-> "Renamed", member_count |-> 600,
      last_scraped |-> "2026-01-04", message_count |-> 2, link_count |-> 1]}

(***************************************************************************)
(* The import of an HTML export (ui/app.py:518-581)                        *)
(***************************************************************************)
\* The channel name is the name of the export's folder.
HtmlChannel == "export"

\* Two parsed messages (html_import.py:67-125): the older one has a button,
\* the newer one a link in its text, both to the same URL.
HtmlMessages ==
    {[message_id |-> 1, date |-> "15.01.2024 10:00:00", text |-> <<"x">>,
      buttons |-> <<[url |-> FirstUrl, label |-> <<"open">>]>>, text_links |-> <<>>],
     [message_id |-> 2, date |-> "01.02.2025 10:00:00", text |-> FirstUrl,
      buttons |-> <<>>, text_links |-> <<FirstUrl>>]}

HtmlMsgDict(channel_name, msg) ==
    [message_id |-> msg.message_id, text |-> msg.text, date |-> msg.date,
     sender_id |-> 0, has_link |-> (msg.buttons # <<>> \/ msg.text_links # <<>>),
     channel_name |-> channel_name, forward_from |-> NoneV]

HtmlLinkRecord(channel_name, msg, url, source, anchor) ==
    [url |-> url, domain |-> _extract_domain(url), anchor_text |-> anchor,
     source |-> source, message_id |-> msg.message_id, message_date |-> msg.date,
     channel_name |-> channel_name, forward_from |-> NoneV]

\* The records of a parsed message: its buttons, then its text links.
HtmlLinkRecords(channel_name, msg) ==
    [i \in 1..Len(msg.buttons) |->
        HtmlLinkRecord(channel_name, msg, msg.buttons[i].url, "button",
                       Some(msg.buttons[i].label))]
    \o [i \in 1..Len(msg.text_links) |->
        HtmlLinkRecord(channel_name, msg, msg.text_links[i], "html_text", NoneV)]

\* save_links(conn, [lr]) for each record in turn.
RECURSIVE SaveEach(_, _)
SaveEach(bag, recs) ==
    IF recs = <<>> THEN bag
    ELSE SaveEach(SaveLinksResult(bag, <<Head(recs)>>).bag, Tail(recs))

\* One parsed message is imported under the channel name taken from the
\* folder of the file: save_messages of its dict, then save_links of each of
\* its records (ui/app.py:530-576).
ImportHtmlMessage(channel_name, msg) ==
    LET recs == HtmlLinkRecords(channel_name, msg)
        md == HtmlMsgDict(channel_name, msg)
        before == SaveEach(links, SubSeq(recs, 1, Len(recs) - 1))
    IN /\ messages' = SaveMessagesResult(messages, <<md>>).bag
       /\ links' = SaveEach(links, recs)
       /\ last' = IF recs = <<>>
                  THEN [op |-> "save_messages", ch |-> "", n |-> 1,
                        ret |-> SaveMessagesResult(messages, <<md>>).rowcount]
                  ELSE [op |-> "save_links", ch |-> "", n |-> 1,
                        ret |-> SaveLinksResult(before, <<recs[Len(recs)]>>).rowcount]
       /\ Commit
       /\ UNCHANGED channels

(***************************************************************************)
(* The store as a state machine: any sequence of calls.                    *)
(***************************************************************************)
NoCall == [op |-> "init_db", ch |-> "", n |-> 0, ret |-> 0]

\* init_db (db.py:53-61): the schema on an empty database.
init_db ==
    /\ messages = EmptyBag
    /\ links = EmptyBag
    /\ channels = EmptyBag
    /\ last = NoCall
    /\ uncommitted = NothingPending

\* No call of extract_links is under way.
NoMessage ==
    [message_id |-> 0, text |-> <<>>, date |-> "", channel_name |-> "",
     forward_from |-> NoneV]

\* No caller is in extract_links.
Callers == {1, 2}
NotCalling ==
    [message_dict |-> NoMessage, raw_message |-> NoneV, seen_keys |-> {},
     results |-> <<>>, pc |-> 5]
NoCalls == [c \in Callers |-> NotCalling]

ExtractIdle ==
    /\ message_dict = NoMessage
    /\ raw_message = NoneV
    /\ seen_keys = {}
    /\ results = <<>>
    /\ pc = 5
    /\ calls = NoCalls

\* No scrape session has been started (ui/app.py:145).
\* The task: where it stands (pc), the ids iter_messages has still to deliver
\* (the first of them is the message in hand), fetch_messages' local
\* `fetched`, and what became of it.
NoTask ==
    [status |-> "none", pc |-> "iter", todo |-> <<>>, fetched |-> 0, appended |-> <<>>,
     late |-> 0, fault |-> FALSE, flood |-> FALSE, end |-> ""]
NoSession ==
    [min_id |-> 0, limit |-> 0, skip_scraped |-> FALSE, links_only |-> FALSE,
     from_date |-> "", error |-> ""]
EmptyState == [fetched |-> 0, links |-> 0, msgs |-> <<>>, link_recs |-> <<>>]

ScrapeIdle ==
    /\ scraping = FALSE
    /\ stop_event = FALSE
    /\ state = EmptyState
    /\ bg_progress = 0
    /\ task = NoTask
    /\ ui = "idle"
    /\ session = NoSession
    /\ history = <<>>
    /\ session_channels = {}

\* No call of connect() was made (telegram_client.py:74-85): where the call
\* stands, the loop variable, the calls of client.connect() made, the errors
\* they raised, the sleeps, and what the call returned or raised.
NotConnecting ==
    [pc |-> "idle", attempt |-> 0, tries |-> 0, errors |-> <<>>, slept |-> <<>>,
     ret |-> "", calls |-> 0]

\* The TelethonManager after __init__ (ui/app.py:68-70), with the
\* credentials get_client was asked with so far, the wrappers created (the
\* credentials of each) and those disconnected.
NewManager ==
    [_client |-> 0, _api_id |-> 0, asked |-> {}, created |-> <<>>, disconnected |-> {}]

\* No caller is in get_client.
Sessions == {1, 2}
NotGetting == [pc |-> "idle", api_id |-> 0, made |-> 0, ret |-> 0, calls |-> 0]

ClientIdle ==
    /\ connecting = NotConnecting
    /\ manager = NewManager
    /\ getting = [c \in Sessions |-> NotGetting]
Init == init_db /\ ExtractIdle /\ ScrapeIdle /\ ClientIdle

SaveMessages == (\E b \in MsgBatches : save_messages(b)) /\ UNCHANGED <<extractVars, clientVars, scrapeVars>>
SaveMessagesSmall == (\E b \in MsgBatchesSmall : save_messages(b)) /\ UNCHANGED <<extractVars, clientVars, scrapeVars>>
SaveLinks == (\E b \in LinkBatches : save_links(b)) /\ UNCHANGED <<extractVars, clientVars, scrapeVars>>
SaveLinksSmall == (\E b \in LinkBatchesSmall : save_links(b)) /\ UNCHANGED <<extractVars, clientVars, scrapeVars>>
UpsertChannel == (\E info \in ChannelInfos : upsert_channel(info)) /\ UNCHANGED <<extractVars, clientVars, scrapeVars>>
UpsertChannelSmall ==
    (\E info \in ChannelInfosSmall : upsert_channel(info))
        /\ UNCHANGED <<extractVars, clientVars, scrapeVars>>
UpsertChannelVaried ==
    (\E info \in ChannelInfosVaried : upsert_channel(info))
        /\ UNCHANGED <<extractVars, clientVars, scrapeVars>>
ClearChannel == (\E ch \in Channels : clear_channel(ch)) /\ UNCHANGED <<extractVars, clientVars, scrapeVars>>

\* Every batch of messages, against a few links and channels.
Next ==
    \/ SaveMessages
    \/ SaveLinksSmall
    \/ UpsertChannel
    \/ ClearChannel

Spec == Init /\ [][Next]_vars

\* Every batch of links, against a few messages and channels.
ImportHtml ==
    \E msg \in HtmlMessages :
        ImportHtmlMessage(HtmlChannel, msg) /\ UNCHANGED <<extractVars, clientVars, scrapeVars>>

NextImport ==
    \/ ImportHtml
    \/ SaveMessagesSmall
    \/ SaveLinksSmall
    \/ UpsertChannelVaried
    \/ ClearChannel

SpecImport == Init /\ [][NextImport]_vars

NextLinks ==
    \/ SaveMessagesSmall
    \/ SaveLinks
    \/ UpsertChannelSmall
    \/ ClearChannel

SpecLinks == Init /\ [][NextLinks]_vars

(***************************************************************************)
(* A storage error within a batch (db.py:85-86, 111-112): executemany      *)
(* raises at one of the rows, conn.commit() is not reached and nothing     *)
(* rolls the transaction back.                                             *)
(***************************************************************************)
\* The bag without the rows of `gone`.
Without(bag, gone) == [r \in Rows(bag) \ gone |-> bag[r]]

\* What the error leaves of the rows already written: the engine backs out
\* the failing statement only, or it rolls the open transaction back itself.
StatementAborted(table, after) ==
    /\ uncommitted' = [uncommitted EXCEPT ![table] = @ \cup (Rows(after) \ Rows(
                           IF table = "messages" THEN messages ELSE links))]
    /\ messages' = IF table = "messages" THEN after ELSE messages
    /\ links' = IF table = "links" THEN after ELSE links

RolledBack ==
    /\ uncommitted' = NothingPending
    /\ messages' = Without(messages, uncommitted.messages)
    /\ links' = Without(links, uncommitted.links)

\* save_messages raises at row k of the batch.
save_messages_raises(batch, k, rollback) ==
    /\ IF rollback THEN RolledBack
       ELSE StatementAborted("messages",
                SaveMessagesResult(messages, SubSeq(batch, 1, k - 1)).bag)
    /\ last' = [op |-> "save_messages raised", ch |-> "", n |-> Len(batch), ret |-> 0]
    /\ UNCHANGED channels

\* save_links raises at row k of the batch.
save_links_raises(batch, k, rollback) ==
    /\ IF rollback THEN RolledBack
       ELSE StatementAborted("links",
                SaveLinksResult(links, SubSeq(batch, 1, k - 1)).bag)
    /\ last' = [op |-> "save_links raised", ch |-> "", n |-> Len(batch), ret |-> 0]
    /\ UNCHANGED channels

\* Batches of two rows of the main channel.
MsgPairs ==
    {<<MsgDict(MainChannel, i, LinkedPayload), MsgDict(MainChannel, j, LinkedPayload)>> :
        i \in 1..2, j \in 2..3}

LinkPairs ==
    {<<StoreLinkRecord(MainChannel, i, FirstUrl, RegexPayload),
       StoreLinkRecord(MainChannel, j, FirstUrl, RegexPayload)>> : i \in 1..2, j \in 2..3}

SaveMessagesPair ==
    (\E b \in MsgPairs : save_messages(b)) /\ UNCHANGED <<extractVars, clientVars, scrapeVars>>

SaveLinksPair ==
    (\E b \in LinkPairs : save_links(b)) /\ UNCHANGED <<extractVars, clientVars, scrapeVars>>

SaveMessagesRaises ==
    \E b \in MsgPairs, k \in 1..2, rollback \in BOOLEAN :
        save_messages_raises(b, k, rollback) /\ UNCHANGED <<extractVars, clientVars, scrapeVars>>

SaveLinksRaises ==
    \E b \in LinkPairs, k \in 1..2, rollback \in BOOLEAN :
        save_links_raises(b, k, rollback) /\ UNCHANGED <<extractVars, clientVars, scrapeVars>>

NextFault ==
    \/ SaveMessagesPair
    \/ SaveLinksPair
    \/ SaveMessagesRaises
    \/ SaveLinksRaises
    \/ UpsertChannelSmall
    \/ ClearChannel

SpecFault == Init /\ [][NextFault]_vars

(***************************************************************************)
(* The dict fetch_messages yields (telegram_client.py:247-285)             *)
(***************************************************************************)
\* The has_link flag: an entity of one of the two URL types, else a button
\* with a url, else a web page preview, else "http://" or "https://" in the
\* text, in lower case only (re.search without IGNORECASE).
HasLinkFlag(raw, text) ==
    \/ raw.entities.some
         /\ \E i \in 1..Len(raw.entities.val) :
                IsTextUrl(raw.entities.val[i]) \/ IsUrl(raw.entities.val[i])
    \/ raw.reply_markup.some
         /\ \E i \in 1..Len(Flatten(raw.reply_markup.val)) :
                HasUrl(Flatten(raw.reply_markup.val)[i])
    \/ raw.media.some /\ raw.media.val.type = "MessageMediaWebPage"
    \/ \E i \in 1..Len(text) : text[i] = "http://"

\* The yielded dict without its raw_message, which the model keeps beside it.
FetchedDict(id, text, date, raw) ==
    [message_id |-> id, text |-> text, date |-> date,
     sender_id |-> 100, has_link |-> HasLinkFlag(raw, text),
     channel_name |-> MainChannel, forward_from |-> NoneV]

(***************************************************************************)
(* extract_links as a state machine: called on one message, the five       *)
(* methods run one after the other.                                        *)
(***************************************************************************)
UrlX == <<"http://", "x">>
UrlXSlash == <<"http://", "x", "/">>
UrlXUpper == <<"HTTP://", "X">>
UrlWwwY == <<"http://", "www.", "y">>
UrlWords == {UrlX, UrlXSlash, UrlXUpper, UrlWwwY}
Words == UrlWords \cup {<<"x">>}

\* The words of ws joined by single blanks.
RECURSIVE Join(_)
Join(ws) ==
    IF ws = <<>> THEN <<>>
    ELSE IF Len(ws) = 1 THEN ws[1]
    ELSE ws[1] \o <<" ">> \o Join(Tail(ws))

Texts == {Join(ws) : ws \in SeqsUpTo(Words, MaxWords)}

TextUrlEntity(offset, length, url) ==
    [type |-> "MessageEntityTextUrl", offset |-> offset, length |-> length, url |-> url]
UrlEntity(offset, length) ==
    [type |-> "MessageEntityUrl", offset |-> offset, length |-> length, url |-> <<>>]
BoldEntity(offset, length) ==
    [type |-> "MessageEntityBold", offset |-> offset, length |-> length, url |-> <<>>]

\* msg.entities: None, or spans over the first word, the first word and its
\* blank, and past the end of the text.
EntityLists ==
    {NoneV,
     Some(<<BoldEntity(0, 1)>>),
     Some(<<TextUrlEntity(0, 1, UrlXUpper)>>),
     Some(<<UrlEntity(0, 2)>>),
     Some(<<UrlEntity(0, 3)>>),
     Some(<<UrlEntity(0, 2), TextUrlEntity(0, 2, UrlXSlash)>>),
     Some(<<UrlEntity(7, 2)>>)}

Button(url, text) == [url |-> url, text |-> text]

\* msg.reply_markup: None, or rows of buttons with and without a url.
Markups ==
    {NoneV,
     Some(<<<<Button(NoneV, <<"menu">>)>>>>),
     Some(<<<<Button(Some(UrlXSlash), <<"open">>)>>>>),
     Some(<<<<Button(Some(UrlX), <<"one">>), Button(Some(UrlXUpper), <<"two">>)>>>>),
     Some(<<<<Button(Some(UrlX), <<"one">>)>>, <<Button(Some(<<"not", " ", "a", " ", "url">>), <<"two">>)>>>>),
     Some(<<<<Button(Some(<<"http://", "x", "/", "/">>), <<"one">>),
              Button(Some(UrlX), <<"two">>)>>>>)}

\* msg.media: None, a web page preview with or without a url, a photo.
Medias ==
    {NoneV,
     Some([type |-> "MessageMediaWebPage", url |-> Some(UrlX)]),
     Some([type |-> "MessageMediaWebPage", url |-> Some(<<"http://", "y", "www.", "x", "/", "www.">>)]),
     Some([type |-> "MessageMediaWebPage", url |-> Some(<<"http://", "[", "x">>)]),
     Some([type |-> "MessageMediaWebPage", url |-> NoneV]),
     Some([type |-> "MessageMediaPhoto", url |-> NoneV])}

RawMessages ==
    {NoneV} \cup
    {Some([entities |-> e, reply_markup |-> m, media |-> w]) :
        e \in EntityLists, m \in Markups, w \in Medias}

\* The message dicts extract_links is called with: the dict fetch_messages
\* yields for a Telethon message, or a caller's dict when there is none.
MessageDicts(raw) ==
    IF raw.some
    THEN {FetchedDict(1, t, "2026-01-01", raw.val) : t \in Texts}
    ELSE {[message_id |-> 1, text |-> t, date |-> "2026-01-01", sender_id |-> 100,
           has_link |-> h, channel_name |-> MainChannel, forward_from |-> NoneV] :
             t \in Texts, h \in BOOLEAN}

\* extract_links is called: seen_keys and results start empty (lines 90-97).
InitExtract ==
    /\ init_db
    /\ ScrapeIdle
    /\ raw_message \in RawMessages
    /\ message_dict \in MessageDicts(raw_message)
    /\ seen_keys = {}
    /\ results = <<>>
    /\ pc = 0
    /\ calls = NoCalls
    /\ ClientIdle

RunMethod(k) ==
    /\ pc = k - 1
    /\ LET st == AddAll(message_dict, [seen_keys |-> seen_keys, results |-> results],
                         MethodFinds(k, message_dict, raw_message))
       IN /\ seen_keys' = st.seen_keys
          /\ results' = st.results
    /\ pc' = k
    /\ UNCHANGED <<message_dict, raw_message, calls, storeVars, scrapeVars, clientVars>>

ExtractMethod1 == RunMethod(1)
ExtractMethod2 == RunMethod(2)
ExtractMethod3 == RunMethod(3)
ExtractMethod4 == RunMethod(4)
ExtractMethod5 == RunMethod(5)

\* The records extract_links returned are saved (ui/app.py:759-773).
SaveExtracted ==
    /\ pc = 5
    /\ save_links(results)
    /\ pc' = 6
    /\ UNCHANGED <<message_dict, raw_message, seen_keys, results, calls, scrapeVars, clientVars>>

NextExtract ==
    \/ ExtractMethod1
    \/ ExtractMethod2
    \/ ExtractMethod3
    \/ ExtractMethod4
    \/ ExtractMethod5
    \/ SaveExtracted

SpecExtract == InitExtract /\ [][NextExtract]_vars

(***************************************************************************)
(* extract_links called by several callers, one call after another and     *)
(* calls side by side (link_extractor.py:90-161).                          *)
(***************************************************************************)
\* The messages of the calls: two ids in two channels, a text with one URL or
\* with two spellings of it, with or without a button.
CallTexts == {UrlX, Join(<<UrlX, UrlXSlash>>)}
CallRaws ==
    {NoneV,
     Some([entities |-> NoneV,
           reply_markup |-> Some(<<<<Button(Some(UrlXUpper), <<"open">>)>>>>),
           media |-> NoneV])}
CallDicts(raw) ==
    {[message_id |-> id, text |-> t, date |-> "2026-01-01", sender_id |-> 100,
      has_link |-> TRUE, channel_name |-> ch, forward_from |-> NoneV] :
        id \in 1..2, ch \in Channels, t \in CallTexts}

\* Mutant: seen_keys is one set of the module, every call adds to it.
SeenKeysOfModule(c) == UNION {calls[d].seen_keys : d \in Callers}

\* seen_keys: set[tuple] = set() (line 96): a set of the call's own.
SeenKeysOfCall(c) == {}

\* A caller enters extract_links (lines 90-97).
CallExtract(c) ==
    /\ calls[c].pc = 5
    /\ \E raw \in CallRaws : \E md \in CallDicts(raw) :
           calls' = [calls EXCEPT ![c] =
                        [message_dict |-> md, raw_message |-> raw,
                         seen_keys |-> SeenKeysOfCall(c), results |-> <<>>, pc |-> 0]]
    /\ UNCHANGED <<message_dict, raw_message, seen_keys, results, pc, storeVars,
                   scrapeVars, clientVars>>

\* The next method of the caller's call runs (lines 115-159).
CallMethod(c) ==
    /\ calls[c].pc < 5
    /\ LET k == calls[c].pc + 1
           st == AddAll(calls[c].message_dict,
                        [seen_keys |-> calls[c].seen_keys, results |-> calls[c].results],
                        MethodFinds(k, calls[c].message_dict, calls[c].raw_message))
       IN calls' = [calls EXCEPT ![c].seen_keys = st.seen_keys,
                                 ![c].results = st.results,
                                 ![c].pc = k]
    /\ UNCHANGED <<message_dict, raw_message, seen_keys, results, pc, storeVars,
                   scrapeVars, clientVars>>

NextCalls ==
    \/ \E c \in Callers : CallExtract(c)
    \/ \E c \in Callers : CallMethod(c)

SpecCalls == Init /\ [][NextCalls]_vars

(***************************************************************************)
(* fetch_messages (telegram_client.py:177-319)                             *)
(***************************************************************************)
\* The messages of the main channel on the server: message 1 has a URL in its
\* text, message 2 has none, the newest message has a button with a URL.
ServerText(id) == IF id = 1 THEN UrlX ELSE <<"x">>

ServerRaw(id) ==
    [entities |-> NoneV,
     reply_markup |-> IF id = NumMessages
                      THEN Some(<<<<Button(Some(UrlXSlash), <<"open">>)>>>>)
                      ELSE NoneV,
     media |-> NoneV]

ServerDates == <<"2026-01-01", "2026-01-02", "2026-01-03", "2026-01-04", "2026-01-05">>

\* client.iter_messages(entity, limit, min_id): the ids above min_id, newest
\* first, at most limit of them (limit 0 stands for None, no limit).
RECURSIVE Descending(_, _)
Descending(hi, lo) == IF hi <= lo THEN <<>> ELSE <<hi>> \o Descending(hi - 1, lo)

IterMessages(limit, min_id) ==
    LET all == Descending(NumMessages, min_id)
    IN IF limit = 0 \/ Len(all) <= limit THEN all ELSE SubSeq(all, 1, limit)

\* The dict fetch_messages yields for a message of the main channel.
YieldedDict(id) == FetchedDict(id, ServerText(id), ServerDates[id], ServerRaw(id))

\* The from_date of the options: the widget's default, or the day of message 2
\* (ui/app.py:675-679, 708).
DefaultFromDate == "2015-01-01"
FromDates == {DefaultFromDate, ServerDates[2]}

\* The place of a day among the days of the server's messages; a day before
\* all of them has place 0.
DateOrder(d) ==
    IF \E i \in 1..Len(ServerDates) : ServerDates[i] = d
    THEN CHOOSE i \in 1..Len(ServerDates) : ServerDates[i] = d
    ELSE 0

\* Mutant: msg_date <= from_dt.
OlderOrSame(msg_date, from_date) == DateOrder(msg_date) <= DateOrder(from_date)

\* msg_date < from_dt (telegram_client.py:233-236): from_dt is the start of
\* the day from_date, so a message of that day is not older.
Older(msg_date, from_date) == DateOrder(msg_date) < DateOrder(from_date)

(***************************************************************************)
(* The scrape session of one channel (ui/app.py:702-836): the UI thread    *)
(* and the background task of _do_scrape.                                  *)
(***************************************************************************)
Call(op, n, ret) == [op |-> op, ch |-> "", n |-> n, ret |-> ret]

\* save_messages then save_links of the buffers `st` holds, each only when
\* `always` or its buffer is not empty.
FlushStore(st, always) ==
    LET m == SaveMessagesResult(messages, st.msgs)
        l == SaveLinksResult(links, st.link_recs)
        doM == always \/ st.msgs # <<>>
        doL == always \/ st.link_recs # <<>>
    IN /\ messages' = IF doM THEN m.bag ELSE messages
       /\ links' = IF doL THEN l.bag ELSE links
       /\ last' = IF doL THEN Call("save_links", Len(st.link_recs), l.rowcount)
                  ELSE IF doM THEN Call("save_messages", Len(st.msgs), m.rowcount)
                  ELSE last
       /\ IF doM \/ doL THEN Commit ELSE UNCHANGED uncommitted

\* "Add Channel" for a channel that is not listed (ui/app.py:615-629): it is
\* listed and its row is written with the counts upsert_channel defaults to.
AddChannel ==
    /\ ui = "idle"
    /\ MainChannel \notin session_channels
    /\ session_channels' = session_channels \cup {MainChannel}
    /\ upsert_channel(ChannelInfo(MainChannel, 0, 0))
    /\ UNCHANGED <<extractVars, clientVars, scraping, stop_event, state, bg_progress, task, ui,
                   session, history>>

\* "Remove" (ui/app.py:649-652): the channel leaves the list, the store is
\* not touched.
RemoveChannel ==
    /\ ui = "idle"
    /\ MainChannel \in session_channels
    /\ session_channels' = session_channels \ {MainChannel}
    /\ UNCHANGED <<storeVars, extractVars, clientVars, scraping, stop_event, state, bg_progress, task,
                   ui, session, history>>

\* "Start Scraping" (ui/app.py:705-740, 775-779): the cursor is read, the
\* session's state is made and the task is submitted.  A session is started
\* when the task of the one before it has ended.
Start(limit, skip_scraped, links_only, from_date) ==
    /\ ui = "idle"
    /\ task.status # "running"
    /\ MainChannel \in session_channels
    /\ LET min_id == IF skip_scraped THEN get_last_message_id(MainChannel) ELSE 0
       IN /\ session' = [min_id |-> min_id, limit |-> limit,
                         skip_scraped |-> skip_scraped, links_only |-> links_only,
                         from_date |-> from_date, error |-> ""]
          /\ task' = [NoTask EXCEPT !.status = "running",
                                    !.todo = IterMessages(limit, min_id)]
    /\ scraping' = TRUE
    /\ stop_event' = FALSE
    /\ state' = EmptyState
    /\ bg_progress' = 0
    /\ ui' = "monitor"
    /\ UNCHANGED <<storeVars, extractVars, clientVars, history, session_channels>>

\* Sessions one after another, each with the default from_date.
StartScraping ==
    \E limit \in {0, 1}, skip_scraped \in BOOLEAN, links_only \in BOOLEAN :
        /\ Len(history) < MaxSessions
        /\ Start(limit, skip_scraped, links_only, DefaultFromDate)

\* The first session, with or without a from_date among the messages' days.
StartSession ==
    \E limit \in {0, 1}, links_only \in BOOLEAN, from_date \in FromDates :
        /\ history = <<>>
        /\ Start(limit, TRUE, links_only, from_date)

\* Mutant: the loop head without the check of the stop signal.
BgCheckWithoutStop ==
    /\ task.status = "running"
    /\ task.pc = "iter"
    /\ task' = IF task.todo = <<>>
               THEN [task EXCEPT !.pc = "final", !.end = "exhausted"]
               ELSE IF Older(ServerDates[Head(task.todo)], session.from_date)
               THEN [task EXCEPT !.pc = "final", !.end = "from_date"]
               ELSE [task EXCEPT !.pc = "checked"]
    /\ UNCHANGED <<storeVars, extractVars, clientVars, scraping, stop_event, state, bg_progress, ui,
                   session, history, session_channels>>

\* fetch_messages, the head of its loop (telegram_client.py:227-237): the
\* iteration is over, or the next message is there and the stop signal and
\* the from_date are checked.
BgCheck ==
    /\ task.status = "running"
    /\ task.pc = "iter"
    /\ task' = IF task.todo = <<>>
               THEN [task EXCEPT !.pc = "final", !.end = "exhausted"]
               ELSE IF stop_event
               THEN [task EXCEPT !.pc = "final", !.end = "stopped"]
               ELSE IF Older(ServerDates[Head(task.todo)], session.from_date)
               THEN [task EXCEPT !.pc = "final", !.end = "from_date"]
               ELSE [task EXCEPT !.pc = "checked"]
    /\ UNCHANGED <<storeVars, extractVars, clientVars, scraping, stop_event, state, bg_progress, ui,
                   session, history, session_channels>>

\* fetch_messages builds the dict and yields it (telegram_client.py:239-285).
\* task.late counts the yields made with the stop signal set.
BgYield ==
    /\ task.status = "running"
    /\ task.pc = "checked"
    /\ task' = [task EXCEPT !.pc = "yielded",
                            !.late = @ + (IF stop_event THEN 1 ELSE 0)]
    /\ UNCHANGED <<storeVars, extractVars, clientVars, scraping, stop_event, state, bg_progress, ui,
                   session, history, session_channels>>

\* _do_scrape takes the dict and checks the stop signal (ui/app.py:743-754);
\* on the break the task ends and fetch_messages is not resumed.
BgReceive ==
    /\ task.status = "running"
    /\ task.pc = "yielded"
    /\ task' = IF stop_event
               THEN [task EXCEPT !.status = "done", !.end = "stopped",
                                 !.todo = Tail(task.todo)]
               ELSE [task EXCEPT !.pc = "extract"]
    /\ UNCHANGED <<storeVars, extractVars, clientVars, scraping, stop_event, state, bg_progress, ui,
                   session, history, session_channels>>

\* fetch_messages is resumed after its yield (telegram_client.py:287-289).
Resumed(t) == [t EXCEPT !.pc = "iter", !.todo = Tail(t.todo), !.fetched = @ + 1]

ProgressAfter(t) ==
    IF (t.fetched + 1) % BatchSize = 0 THEN t.fetched + 1 ELSE bg_progress

\* _do_scrape extracts the links and buffers message and links
\* (ui/app.py:756-766); a message links_only skips goes back to fetch_messages.
\* task.appended lists the ids of the messages that were buffered.
BgAppend ==
    /\ task.status = "running"
    /\ task.pc = "extract"
    /\ LET id == Head(task.todo)
           md == YieldedDict(id)
           found == extract_links(md, Some(ServerRaw(id)))
       IN IF session.links_only /\ found = <<>>
          THEN /\ task' = Resumed(task)
               /\ bg_progress' = ProgressAfter(task)
               /\ UNCHANGED state
          ELSE /\ state' = [fetched |-> state.fetched + 1,
                            links |-> state.links + Len(found),
                            msgs |-> Append(state.msgs, md),
                            link_recs |-> state.link_recs \o found]
               /\ task' = [task EXCEPT !.pc = "flush", !.appended = Append(@, id)]
               /\ UNCHANGED bg_progress
    /\ UNCHANGED <<storeVars, extractVars, clientVars, scraping, stop_event, ui, session, history,
                   session_channels>>

\* "Flush batch periodically" (ui/app.py:768-773), then fetch_messages is
\* resumed.
BgFlush ==
    /\ task.status = "running"
    /\ task.pc = "flush"
    /\ IF Len(state.msgs) >= BatchSize
       THEN /\ FlushStore(state, TRUE)
            /\ state' = [state EXCEPT !.msgs = <<>>, !.link_recs = <<>>]
       ELSE UNCHANGED <<messages, links, last, uncommitted, state>>
    /\ task' = Resumed(task)
    /\ bg_progress' = ProgressAfter(task)
    /\ UNCHANGED <<channels, extractVars, clientVars, scraping, stop_event, ui, session, history,
                   session_channels>>

\* iter_messages raises FloodWaitError (telegram_client.py:291-304): the wait
\* is slept through with the count reported each second, and the loop is not
\* entered again.
BgFlood ==
    /\ task.status = "running"
    /\ task.pc = "iter"
    /\ task.todo # <<>>
    /\ task' = [task EXCEPT !.pc = "final", !.flood = TRUE, !.end = "flood"]
    /\ bg_progress' = task.fetched
    /\ UNCHANGED <<storeVars, extractVars, clientVars, scraping, stop_event, state, ui, session,
                   history, session_channels>>

\* iter_messages raises a connection error and connect() succeeds within
\* MAX_RETRIES (telegram_client.py:306-313): the loop is not entered again.
BgFault ==
    /\ task.status = "running"
    /\ task.pc = "iter"
    /\ task.todo # <<>>
    /\ task' = [task EXCEPT !.pc = "final", !.fault = TRUE, !.end = "fault"]
    /\ UNCHANGED <<storeVars, extractVars, clientVars, scraping, stop_event, state, bg_progress, ui,
                   session, history, session_channels>>

\* The connection error is raised again after MAX_RETRIES failed connects
\* (telegram_client.py:306-315): the task ends with the exception.
BgRaise ==
    /\ task.status = "running"
    /\ task.pc = "iter"
    /\ task.todo # <<>>
    /\ task' = [task EXCEPT !.status = "failed", !.fault = TRUE, !.end = "raised"]
    /\ UNCHANGED <<storeVars, extractVars, clientVars, scraping, stop_event, state, bg_progress, ui,
                   session, history, session_channels>>

\* The final progress update (telegram_client.py:317-319); the task is done.
BgEnd ==
    /\ task.status = "running"
    /\ task.pc = "final"
    /\ task' = [task EXCEPT !.status = "done"]
    /\ bg_progress' = task.fetched
    /\ UNCHANGED <<storeVars, extractVars, clientVars, scraping, stop_event, state, ui, session,
                   history, session_channels>>

\* "Stop Scraping" (ui/app.py:702-703).
StopClicked ==
    /\ ui = "monitor"
    /\ scraping
    /\ scraping' = FALSE
    /\ UNCHANGED <<storeVars, extractVars, clientVars, stop_event, state, bg_progress, task, ui,
                   session, history, session_channels>>

\* One turn of the monitor loop while the task runs (ui/app.py:782-800).
MonitorPoll ==
    /\ ui = "monitor"
    /\ task.status = "running"
    /\ state' = [state EXCEPT !.fetched = bg_progress]
    /\ IF ~scraping
       THEN stop_event' = TRUE /\ ui' = "result"
       ELSE UNCHANGED <<stop_event, ui>>
    /\ UNCHANGED <<storeVars, extractVars, clientVars, scraping, bg_progress, task, session, history,
                   session_channels>>

\* The monitor loop ends because the task is done.
MonitorDone ==
    /\ ui = "monitor"
    /\ task.status # "running"
    /\ ui' = "result"
    /\ UNCHANGED <<storeVars, extractVars, clientVars, scraping, stop_event, state, bg_progress, task,
                   session, history, session_channels>>

\* future.result() (ui/app.py:802-808): the exception of a task that failed,
\* or InvalidStateError for a task that still runs, is shown with st.error.
FutureResult ==
    /\ ui = "result"
    /\ ui' = "flush"
    /\ session' = [session EXCEPT !.error =
                       IF task.status = "failed" THEN task.end
                       ELSE IF task.status = "running" THEN "InvalidStateError"
                       ELSE ""]
    /\ UNCHANGED <<storeVars, extractVars, clientVars, scraping, stop_event, state, bg_progress, task,
                   history, session_channels>>

\* "Flush remaining" (ui/app.py:810-814).
FlushRemaining ==
    /\ ui = "flush"
    /\ FlushStore(state, FALSE)
    /\ ui' = "upsert"
    /\ UNCHANGED <<channels, extractVars, clientVars, scraping, stop_event, state, bg_progress, task,
                   session, history, session_channels>>

\* "Update channel stats" and the end of the run (ui/app.py:819-836).  The
\* history keeps, beside the options, how the session ended and the ids of
\* the messages it had buffered.
UpdateChannelStats ==
    /\ ui = "upsert"
    /\ upsert_channel(ChannelInfo(MainChannel, state.fetched, state.links))
    /\ scraping' = FALSE
    /\ ui' = "idle"
    /\ history' = Append(history,
                         [min_id |-> session.min_id, limit |-> session.limit,
                          skip_scraped |-> session.skip_scraped,
                          links_only |-> session.links_only,
                          stopped |-> stop_event, fault |-> task.fault \/ task.flood,
                          exhausted |-> task.end = "exhausted",
                          appended |-> task.appended])
    /\ UNCHANGED <<extractVars, clientVars, stop_event, state, bg_progress, task, session,
                   session_channels>>

Background ==
    \/ BgCheck
    \/ BgYield
    \/ BgReceive
    \/ BgAppend
    \/ BgFlush
    \/ BgFlood
    \/ BgFault
    \/ BgRaise
    \/ BgEnd

Monitor ==
    \/ StopClicked
    \/ MonitorPoll
    \/ MonitorDone
    \/ FutureResult
    \/ FlushRemaining
    \/ UpdateChannelStats

NextScrape ==
    \/ AddChannel
    \/ RemoveChannel
    \/ StartScraping
    \/ Background
    \/ Monitor

SpecScrape == Init /\ [][NextScrape]_vars

NextSession ==
    \/ AddChannel
    \/ StartSession
    \/ Background
    \/ Monitor

SpecSession == Init /\ [][NextSession]_vars

(***************************************************************************)
(* The session with exceptions from extract_links and from the store.      *)
(***************************************************************************)
\* extract_links raises on the message in hand (ui/app.py:759): _do_scrape
\* has no handler, the task ends with the exception.
BgExtractRaises ==
    /\ task.status = "running"
    /\ task.pc = "extract"
    /\ task' = [task EXCEPT !.status = "failed", !.end = "extract raised"]
    /\ UNCHANGED <<storeVars, extractVars, clientVars, scraping, stop_event, state, bg_progress, ui,
                   session, history, session_channels>>

\* A flush of the buffers in which save_messages raises at its first row, or
\* save_messages succeeds and save_links raises at its first row.
FlushRaises(inLinks) ==
    IF inLinks
    THEN /\ messages' = SaveMessagesResult(messages, state.msgs).bag
         /\ last' = [op |-> "save_links raised", ch |-> "", n |-> Len(state.link_recs),
                     ret |-> 0]
         /\ Commit
         /\ UNCHANGED <<links, channels>>
    ELSE save_messages_raises(state.msgs, 1, FALSE)

\* The periodic flush raises (ui/app.py:769-771): the lines that clear the
\* buffers are not reached, the task ends with the exception.
BgFlushRaises ==
    \E inLinks \in BOOLEAN :
        /\ task.status = "running"
        /\ task.pc = "flush"
        /\ Len(state.msgs) >= BatchSize
        /\ inLinks => state.link_recs # <<>>
        /\ FlushRaises(inLinks)
        /\ task' = [task EXCEPT !.status = "failed", !.end = "flush raised"]
        /\ UNCHANGED <<extractVars, clientVars, scraping, stop_event, state, bg_progress, ui, session,
                       history, session_channels>>

\* The final flush raises (ui/app.py:811-814): nothing handles it, the run of
\* the script ends there and the exception is what the page shows.
FlushRemainingRaises ==
    \E inLinks \in BOOLEAN :
        /\ ui = "flush"
        /\ IF inLinks THEN state.link_recs # <<>> ELSE state.msgs # <<>>
        /\ FlushRaises(inLinks)
        /\ ui' = "crashed"
        /\ session' = [session EXCEPT !.error = "flush raised"]
        /\ UNCHANGED <<extractVars, clientVars, scraping, stop_event, state, bg_progress, task,
                       history, session_channels>>

NextFaulty ==
    \/ NextSession
    \/ BgExtractRaises
    \/ BgFlushRaises
    \/ FlushRemainingRaises

SpecFaulty == Init /\ [][NextFaulty]_vars

(***************************************************************************)
(* The application: a session, imports of HTML exports and "Clear Data".   *)
(***************************************************************************)
\* The files that are imported: the folder's name, which becomes the channel
\* name (ui/app.py:530), and the parsed message.  One export lies in a folder
\* named "All"; the message of the other has a button and a link in its text
\* that differ by the trailing slash.
HtmlFiles ==
    {<<"All", [message_id |-> 2, date |-> "01.02.2025 10:00:00", text |-> <<"x">>,
               buttons |-> <<>>, text_links |-> <<>>]>>,
     <<HtmlChannel, [message_id |-> 3, date |-> "15.01.2024 10:00:00", text |-> UrlXSlash,
                     buttons |-> <<[url |-> UrlX, label |-> <<"open">>]>>,
                     text_links |-> <<UrlXSlash>>]>>}

\* "Import" (ui/app.py:518-581), from the page of the idle application.
ImportHtmlFile ==
    \E f \in HtmlFiles :
        /\ ui = "idle"
        /\ ImportHtmlMessage(f[1], f[2])
        /\ UNCHANGED <<extractVars, clientVars, scrapeVars>>

\* "Clear Data" of the listed channel (ui/app.py:654-657).
ClearData ==
    /\ ui = "idle"
    /\ MainChannel \in session_channels
    /\ clear_channel(MainChannel)
    /\ UNCHANGED <<extractVars, clientVars, scrapeVars>>

\* "Flush remaining", the messages (ui/app.py:811-812): the UI thread tests
\* state["msgs"] and saves it.
FlushRemainingMessages ==
    /\ ui = "flush"
    /\ IF state.msgs # <<>>
       THEN save_messages(state.msgs)
       ELSE UNCHANGED storeVars
    /\ ui' = "flush_links"
    /\ UNCHANGED <<extractVars, clientVars, scraping, stop_event, state, bg_progress, task,
                   session, history, session_channels>>

\* "Flush remaining", the links (ui/app.py:813-814): state["link_recs"] is
\* tested and saved after that, and the task may have run in between.
FlushRemainingLinks ==
    /\ ui = "flush_links"
    /\ IF state.link_recs # <<>>
       THEN save_links(state.link_recs)
       ELSE UNCHANGED storeVars
    /\ ui' = "upsert"
    /\ UNCHANGED <<extractVars, clientVars, scraping, stop_event, state, bg_progress, task,
                   session, history, session_channels>>

NextApp ==
    \/ AddChannel
    \/ StartSession
    \/ Background
    \/ StopClicked
    \/ MonitorPoll
    \/ MonitorDone
    \/ FutureResult
    \/ FlushRemainingMessages
    \/ FlushRemainingLinks
    \/ UpdateChannelStats
    \/ ImportHtmlFile
    \/ ClearData

SpecApp == Init /\ [][NextApp]_vars

(***************************************************************************)
(* TelethonWrapper.connect (telegram_client.py:74-85, config.py:18-20)     *)
(***************************************************************************)
MAX_RETRIES == 3
RETRY_DELAYS == <<1, 2, 4>>
MaxConnects == 3    \* connect() is called at most MaxConnects times

\* The exceptions connect() catches, and one it does not.
ConnectionErrors == {"ConnectionError", "OSError"}
OtherErrors == {"RuntimeError"}

\* connect() is called.
Connect ==
    /\ connecting.pc = "idle"
    /\ connecting.calls < MaxConnects
    /\ connecting' = [NotConnecting EXCEPT !.pc = "for", !.calls = connecting.calls + 1]
    /\ UNCHANGED <<storeVars, extractVars, scrapeVars, manager, getting>>

\* for attempt in range(MAX_RETRIES): the body is entered, or the loop is left
\* and connect() returns False (line 85).
ConnectLoop ==
    /\ connecting.pc = "for"
    /\ connecting' = IF connecting.attempt < MAX_RETRIES
                     THEN [connecting EXCEPT !.pc = "try"]
                     ELSE [connecting EXCEPT !.pc = "idle", !.ret = "False"]
    /\ UNCHANGED <<storeVars, extractVars, scrapeVars, manager, getting>>

\* await self.client.connect() succeeds: return True (lines 78-79).
ClientConnects ==
    /\ connecting.pc = "try"
    /\ connecting' = [connecting EXCEPT !.pc = "idle", !.tries = @ + 1, !.ret = "True"]
    /\ UNCHANGED <<storeVars, extractVars, scrapeVars, manager, getting>>

\* Mutant: the last attempt sleeps like the others.
AttemptsLeftAlways(attempt) == attempt < MAX_RETRIES

\* if attempt < MAX_RETRIES - 1 (line 81)
AttemptsLeft(attempt) == attempt < MAX_RETRIES - 1

\* client.connect() raises ConnectionError or OSError (lines 80-84): the
\* call goes to sleep when attempts are left, and raises the error otherwise.
ClientConnectFails ==
    \E e \in ConnectionErrors :
        /\ connecting.pc = "try"
        /\ connecting' = IF AttemptsLeft(connecting.attempt)
                         THEN [connecting EXCEPT !.pc = "sleep", !.tries = @ + 1,
                                                 !.errors = Append(@, e)]
                         ELSE [connecting EXCEPT !.pc = "idle", !.tries = @ + 1,
                                                 !.errors = Append(@, e), !.ret = e]
        /\ UNCHANGED <<storeVars, extractVars, scrapeVars, manager, getting>>

\* client.connect() raises an exception the except clause does not name: it
\* leaves connect() at once.
ClientConnectRaises ==
    \E e \in OtherErrors :
        /\ connecting.pc = "try"
        /\ connecting' = [connecting EXCEPT !.pc = "idle", !.tries = @ + 1, !.ret = e]
        /\ UNCHANGED <<storeVars, extractVars, scrapeVars, manager, getting>>

\* await asyncio.sleep(RETRY_DELAYS[attempt]) (line 82), then the next turn
\* of the loop.
ConnectSleep ==
    /\ connecting.pc = "sleep"
    /\ connecting' = [connecting EXCEPT !.pc = "for", !.attempt = @ + 1,
                         !.slept = Append(@, RETRY_DELAYS[connecting.attempt + 1])]
    /\ UNCHANGED <<storeVars, extractVars, scrapeVars, manager, getting>>

NextConnect ==
    \/ Connect
    \/ ConnectLoop
    \/ ClientConnects
    \/ ClientConnectFails
    \/ ClientConnectRaises
    \/ ConnectSleep

SpecConnect == Init /\ [][NextConnect]_vars

(***************************************************************************)
(* TelethonManager.get_client (ui/app.py:59-115), called by the script     *)
(* threads of several sessions on the one cached manager (118-125).        *)
(***************************************************************************)
Credentials == {1, 2}
MaxGets == 2    \* each session calls get_client at most MaxGets times

\* get_client(api_id, api_hash) is called by session c.
GetClient(c) ==
    \E a \in Credentials :
        /\ getting[c].pc = "idle"
        /\ getting[c].calls < MaxGets
        /\ getting' = [getting EXCEPT ![c] =
                          [pc |-> "check", api_id |-> a, made |-> 0, ret |-> 0,
                           calls |-> getting[c].calls + 1]]
        /\ manager' = [manager EXCEPT !.asked = @ \cup {a}]
        /\ UNCHANGED <<storeVars, extractVars, scrapeVars, connecting>>

\* Lines 81-82: the client is returned when there is one with these
\* credentials.
GcCheck(c) ==
    /\ getting[c].pc = "check"
    /\ getting' = IF manager._client # 0 /\ manager._api_id = getting[c].api_id
                  THEN [getting EXCEPT ![c].pc = "idle", ![c].ret = manager._client]
                  ELSE [getting EXCEPT ![c].pc = "clear"]
    /\ UNCHANGED <<storeVars, extractVars, scrapeVars, connecting, manager>>

\* disconnect_and_clear (lines 106-115).
disconnect_and_clear(m) ==
    [m EXCEPT !._client = 0, !._api_id = 0,
              !.disconnected = IF m._client # 0 THEN @ \cup {m._client} ELSE @]

\* Lines 85-86: an old instance is disconnected and cleared.
GcClear(c) ==
    /\ getting[c].pc = "clear"
    /\ manager' = IF manager._client # 0 THEN disconnect_and_clear(manager) ELSE manager
    /\ getting' = [getting EXCEPT ![c].pc = "set"]
    /\ UNCHANGED <<storeVars, extractVars, scrapeVars, connecting>>

\* Lines 88-89: the credentials are kept.
GcSet(c) ==
    /\ getting[c].pc = "set"
    /\ manager' = [manager EXCEPT !._api_id = getting[c].api_id]
    /\ getting' = [getting EXCEPT ![c].pc = "create"]
    /\ UNCHANGED <<storeVars, extractVars, scrapeVars, connecting>>

\* Lines 99-103, run_async(_create()): a TelethonWrapper is made on the
\* loop's thread and handed to the caller.
GcCreate(c) ==
    /\ getting[c].pc = "create"
    /\ manager' = [manager EXCEPT !.created = Append(@, getting[c].api_id)]
    /\ getting' = [getting EXCEPT ![c].pc = "assign",
                                  ![c].made = Len(manager.created) + 1]
    /\ UNCHANGED <<storeVars, extractVars, scrapeVars, connecting>>

\* Line 103: self._client = the wrapper made.
GcAssign(c) ==
    /\ getting[c].pc = "assign"
    /\ manager' = [manager EXCEPT !._client = getting[c].made]
    /\ getting' = [getting EXCEPT ![c].pc = "return"]
    /\ UNCHANGED <<storeVars, extractVars, scrapeVars, connecting>>

\* Line 104: return self._client.
GcReturn(c) ==
    /\ getting[c].pc = "return"
    /\ getting' = [getting EXCEPT ![c].pc = "idle", ![c].ret = manager._client]
    /\ UNCHANGED <<storeVars, extractVars, scrapeVars, connecting, manager>>

NextManager ==
    \E c \in Sessions :
        \/ GetClient(c)
        \/ GcCheck(c)
        \/ GcClear(c)
        \/ GcSet(c)
        \/ GcCreate(c)
        \/ GcAssign(c)
        \/ GcReturn(c)

SpecManager == Init /\ [][NextManager]_vars

(***************************************************************************)
(* Claims about the scrape session.                                        *)
(***************************************************************************)
Stored(id) ==
    \E r \in Rows(messages) : r.channel_name = MainChannel /\ r.message_id = id

\* A session without limit and filter that was stopped or hit a fault.
CutShort(h) == (h.stopped \/ h.fault) /\ h.limit = 0 /\ ~h.links_only

\* A session without limit and filter that resumed at the stored cursor and ran
\* to the end of the iteration.
Completed(h) ==
    /\ h.skip_scraped /\ h.limit = 0 /\ ~h.links_only
    /\ ~h.stopped /\ ~h.fault /\ h.exhausted

\* C7: when a session that was cut short is followed by a session that runs to
\* completion from min_id = get_last_message_id(channel), every message of the
\* channel is stored afterwards.
C7_ResumeSafe ==
    \A k \in 1..(Len(history) - 1) :
        (ui = "idle" /\ CutShort(history[k]) /\ Completed(history[k + 1]))
            => \A id \in 1..NumMessages : Stored(id)

\* The number of links extract_links finds in the messages `ids`.
RECURSIVE LinksFound(_)
LinksFound(ids) ==
    IF ids = <<>> THEN 0
    ELSE Len(extract_links(YieldedDict(Head(ids)), Some(ServerRaw(Head(ids)))))
         + LinksFound(Tail(ids))

\* C22: between the end of a scrape session and the next one, the channel's
\* row holds as message_count and link_count the numbers of messages and of
\* links that session processed.
C22_CountsOfLastSession ==
    (ui = "idle" /\ history # <<>>) =>
        \E r \in Rows(channels) :
            /\ r.channel_name = MainChannel
            /\ r.message_count = Len(history[Len(history)].appended)
            /\ r.link_count = LinksFound(history[Len(history)].appended)

\* Every link extract_links finds in message `id` has its row.
LinksStored(id) ==
    LET recs == extract_links(YieldedDict(id), Some(ServerRaw(id)))
    IN \A k \in 1..Len(recs) :
           \E r \in Rows(links) :
               /\ r.channel_name = MainChannel
               /\ r.message_id = id
               /\ r.url = recs[k].url

\* The message `ids` and their links are in the store.
Persisted(ids) == \A k \in 1..Len(ids) : Stored(ids[k]) /\ LinksStored(ids[k])

\* C24: when a session was cancelled through the stop signal and has ended,
\* and its task has ended as well, every message that was placed in the
\* buffer, and every link of it, is in the store.
C24_StopKeepsBuffered ==
    (ui = "idle" /\ history # <<>> /\ stop_event /\ task.status # "running")
        => Persisted(task.appended)

\* C25 as stated: once the stop signal is set, fetch_messages yields no
\* further message.
C25_NoYieldAfterStop ==
    [][stop_event => ~(task.pc = "checked" /\ task'.pc = "yielded")]_vars

\* C25, amended: a check of the loop head that finds the stop signal set lets
\* no message pass, and after the signal is set fetch_messages yields at most
\* one message, the one whose check was made before.
C25_StopEndsIteration ==
    /\ [](task.late <= 1)
    /\ [][(stop_event /\ task.status = "running" /\ task.pc = "iter")
            => task'.pc # "checked"]_vars

\* After a message was yielded and stored in the buffer, the loop head found
\* the stop signal set and ended the iteration with messages left.
C25_Witness ==
    /\ stop_event
    /\ task.pc = "final"
    /\ task.end = "stopped"
    /\ task.todo # <<>>
    /\ task.fetched = 1
    /\ task.late = 0

\* The ids fetch_messages has yielded in the session: those iter_messages has
\* delivered, the message in hand among them once it is yielded.
YieldedIds ==
    LET all == IterMessages(session.limit, session.min_id)
        inHand == task.status = "running" /\ task.pc \in {"yielded", "extract", "flush"}
    IN SubSeq(all, 1, Len(all) - Len(task.todo) + (IF inHand THEN 1 ELSE 0))

\* C26: with a from_date, fetch_messages yields no message of a day before
\* from_date, it yields the messages of the day from_date itself, and it ends
\* the iteration at the first message that is older.
C26_FromDateBound ==
    task.status # "none" =>
        LET all == IterMessages(session.limit, session.min_id)
            from == DateOrder(session.from_date)
            yielded == {YieldedIds[k] : k \in 1..Len(YieldedIds)}
        IN /\ \A id \in yielded : DateOrder(ServerDates[id]) >= from
           /\ task.end = "from_date" =>
                 /\ task.todo # <<>>
                 /\ DateOrder(ServerDates[Head(task.todo)]) < from
           /\ task.end \in {"from_date", "exhausted"} =>
                 \A k \in 1..Len(all) :
                     DateOrder(ServerDates[all[k]]) >= from => all[k] \in yielded
           /\ (task.status = "running" /\ task.pc = "checked") =>
                 DateOrder(ServerDates[Head(task.todo)]) >= from

\* With from_date the day of message 2, message 2 was yielded and buffered
\* and the iteration ended at message 1.
C26_Witness ==
    /\ session.from_date = ServerDates[2]
    /\ task.end = "from_date"
    /\ Head(task.todo) = 1
    /\ \E k \in 1..Len(task.appended) : task.appended[k] = 2

\* C27: a session that met a rate-limit wait, was not stopped and met no
\* other fault has, when its task is done, yielded every message the
\* iteration holds.
C27_FloodWaitResumes ==
    (task.status = "done" /\ task.flood /\ ~stop_event) => task.todo = <<>>

\* C28: when the session of the channel has ended and its task has ended with
\* a fault it raised, the messages and links the task had buffered are in the
\* store.
C28_FaultFlushesBuffer ==
    (ui = "idle" /\ history # <<>> /\ task.status = "failed" /\ task.end = "raised")
        => Persisted(task.appended)

\* C29: when extract_links has raised on one message of a session that was
\* not stopped, the messages the iteration holds after it are in the store
\* once the session has ended.
C29_ExtractErrorIsolated ==
    (ui = "idle" /\ history # <<>> /\ ~stop_event /\ task.end = "extract raised")
        => \A k \in 2..Len(task.todo) :
               ~Older(ServerDates[task.todo[k]], session.from_date)
                   => Stored(task.todo[k])

\* The message `id` and the links extract_links finds in it are in the
\* buffers.
Buffered(id) ==
    LET recs == extract_links(YieldedDict(id), Some(ServerRaw(id)))
    IN /\ \E k \in 1..Len(state.msgs) : state.msgs[k].message_id = id
       /\ \A k \in 1..Len(recs) : \E j \in 1..Len(state.link_recs) :
              state.link_recs[j] = recs[k]

\* C30: when a flush has raised and the run of the session is over, the
\* buffers still hold what they held, and the failure was shown to the user
\* or a later flush has stored the buffered messages and links.
C30_FailedFlushNotSilent ==
    LET over == ui = "crashed" \/ (ui = "idle" /\ history # <<>>)
        raised == task.end = "flush raised" \/ ui = "crashed"
    IN (over /\ raised) =>
           /\ \A k \in 1..Len(task.appended) :
                 \/ Stored(task.appended[k]) /\ LinksStored(task.appended[k])
                 \/ Buffered(task.appended[k])
           /\ session.error = "flush raised" \/ Persisted(task.appended)

\* C31: whatever calls were made before or run beside it, a call of
\* extract_links holds after each method what the message alone determines,
\* and a message whose text has the URL gets its record of it, also when
\* another message with that URL was or is being extracted.
C31_NoStateBetweenCalls ==
    \A c \in Callers :
        LET md == calls[c].message_dict
            raw == calls[c].raw_message
        IN /\ calls[c].results = AfterMethod(calls[c].pc, md, raw).results
           /\ calls[c].pc = 5 => calls[c].results = extract_links(md, raw)
           /\ (calls[c].pc >= 3 /\ md.text # <<>>) =>
                 \E k \in 1..Len(calls[c].results) : calls[c].results[k].url = UrlX

\* Two calls have returned, for messages with the same id and the same URL in
\* two channels, each with its record of the URL.
C31_Witness ==
    /\ calls[1].pc = 5
    /\ calls[2].pc = 5
    /\ calls[1].message_dict.message_id = calls[2].message_dict.message_id
    /\ calls[1].message_dict.channel_name = MainChannel
    /\ calls[2].message_dict.channel_name = OtherChannel
    /\ \E k \in 1..Len(calls[1].results) : calls[1].results[k].url = UrlX
    /\ \E k \in 1..Len(calls[2].results) : calls[2].results[k].url = UrlX

\* C32: when the UI thread is at its final flush the background task has
\* ended, so that only one of the two can write the batch or change the
\* buffers.
C32_OneWriterOfBatch ==
    ui = "flush" => task.status # "running"

\* C33: for every channel name that has stored messages, every keyword and
\* every flag, get_messages returns the stored messages of that channel
\* whose text has the keyword and whose has_link is the flag, each as often
\* as it is stored, and no other row.
C33_GetMessagesExact ==
    \A channel \in {r.channel_name : r \in Rows(messages)},
       keyword \in {<<>>, <<"x">>},
       has_link \in {NoneV, Some(TRUE), Some(FALSE)} :
        LET asked == {r \in Rows(messages) :
                         /\ r.channel_name = channel
                         /\ keyword # <<>> => Like(r.message_text, keyword)
                         /\ has_link.some => r.has_link = (IF has_link.val THEN 1 ELSE 0)}
        IN get_messages(channel, keyword, has_link) = [r \in asked |-> messages[r]]

\* The place of a source in the fixed order of the methods.
MethodOf(source) ==
    CASE source = "entity_texturl" -> 1
      [] source = "entity_url" -> 2
      [] source = "regex" -> 3
      [] source = "button" -> 4
      [] source = "webpage_preview" -> 5

\* Where the method of `source` first finds url in the message.
FoundAt(source, url) ==
    LET fs == CASE source = "entity_texturl" -> Method1Finds(message_dict, raw_message)
                [] source = "entity_url" -> Method2Finds(message_dict, raw_message)
                [] source = "regex" -> Method3Finds(message_dict, raw_message)
                [] source = "button" -> Method4Finds(message_dict, raw_message)
                [] source = "webpage_preview" -> Method5Finds(message_dict, raw_message)
        at == {i \in 1..Len(fs) : fs[i].url = url}
    IN IF at = {} THEN 0 ELSE CHOOSE i \in at : \A j \in at : i <= j

\* C34: in the records extract_links holds, a record of an earlier method
\* stands before every record of a later one, each record is a find of the
\* method it names, and two records of one method stand in the order in
\* which the method found them.
C34_MethodOrder ==
    \A i, j \in 1..Len(results) :
        /\ MethodOf(results[i].source) <= pc
        /\ FoundAt(results[i].source, results[i].url) > 0
        /\ i < j =>
              /\ MethodOf(results[i].source) <= MethodOf(results[j].source)
              /\ results[i].source = results[j].source =>
                    FoundAt(results[i].source, results[i].url)
                        < FoundAt(results[j].source, results[j].url)

\* extract_links returned records of three methods, two of them of one
\* method.
C34_Witness ==
    /\ pc = 5
    /\ Len(results) >= 3
    /\ Cardinality({results[i].source : i \in 1..Len(results)}) >= 2
    /\ \E i \in 1..(Len(results) - 1) :
          /\ results[i].source = results[i + 1].source
          /\ results[i].url # results[i + 1].url

\* C35: a call of connect() calls client.connect() at most MAX_RETRIES
\* times; before each further attempt it has slept RETRY_DELAYS of the
\* attempt that failed, in turn; it returns True at the first attempt that
\* succeeds; a connection error leaves it only as the error of the last
\* attempt; no step of it can repeat, and it never returns False.
C35_ConnectRetries ==
    LET c == connecting
        ended == c.pc = "idle" /\ c.calls > 0
        failed == Len(c.errors)
    IN /\ c.tries <= MAX_RETRIES
       /\ failed <= c.tries
       /\ Len(c.slept) <= MAX_RETRIES - 1
       /\ c.slept = [i \in 1..Len(c.slept) |-> RETRY_DELAYS[i]]
       /\ c.pc \in {"for", "try"} => (c.tries = failed /\ Len(c.slept) = failed)
       /\ c.pc = "sleep" => (c.tries = failed /\ Len(c.slept) = failed - 1)
       /\ ended => /\ c.ret # "False"
                   /\ c.ret = "True" => (c.tries = failed + 1 /\ Len(c.slept) = failed)
                   /\ c.ret \in ConnectionErrors =>
                         /\ failed = MAX_RETRIES
                         /\ c.tries = MAX_RETRIES
                         /\ c.ret = c.errors[MAX_RETRIES]
                         /\ c.slept = <<RETRY_DELAYS[1], RETRY_DELAYS[2]>>
                   /\ c.ret \in {"True"} \cup ConnectionErrors \cup OtherErrors

\* The second call of connect() raised the error of its third attempt, an
\* OSError after two ConnectionErrors, having slept 1 and 2 seconds.
C35_Witness ==
    /\ connecting.pc = "idle"
    /\ connecting.calls = 2
    /\ connecting.tries = 3
    /\ connecting.ret = "OSError"
    /\ connecting.errors = <<"ConnectionError", "ConnectionError", "OSError">>
    /\ connecting.slept = <<1, 2>>

\* The wrappers that were created and not disconnected.
LiveClients == (1..Len(manager.created)) \ manager.disconnected

\* C36: while every call of get_client was made with the same credentials,
\* at most one TelethonWrapper has been created and every call that has
\* returned returned it; and whatever the credentials, at most one created
\* client is not disconnected.
C36_OneSharedClient ==
    /\ Cardinality(LiveClients) <= 1
    /\ Cardinality(manager.asked) <= 1 =>
          /\ Len(manager.created) <= 1
          /\ \A c \in Sessions :
                (getting[c].pc = "idle" /\ getting[c].calls > 0) => getting[c].ret = 1

\* C37: no two stored links of one imported message have URLs of the same
\* normalized form.
C37_ImportedLinksDeduplicated ==
    \A r1, r2 \in Rows(links) :
        (/\ r1.channel_name \in {f[1] : f \in HtmlFiles}
         /\ r1.channel_name = r2.channel_name
         /\ r1.message_id = r2.message_id
         /\ _dedup_key(r1.message_id, r1.url) = _dedup_key(r2.message_id, r2.url))
            => r1 = r2

\* C38: every record extract_links holds has a non-empty url.
C38_UrlNotEmpty ==
    \A i \in 1..Len(results) : results[i].url # <<>>

\* C39: each stored link refers to a stored message, a row of messages with
\* its channel_name and message_id.
C39_LinkHasMessage ==
    \A l \in Rows(links) :
        \E m \in Rows(messages) :
            m.channel_name = l.channel_name /\ m.message_id = l.message_id

\* C40: every channel_name of a stored message or link is returned by
\* get_channel_list.
C40_ChannelListed ==
    \A r \in Rows(messages) \cup Rows(links) : r.channel_name \in get_channel_list

\* C23: a save batch is all-or-nothing: the rows save_messages or save_links
\* wrote before it raised are not in the table once another call has
\* committed on the connection.
C23_BatchAllOrNothing ==
    [][(uncommitted # NothingPending /\ uncommitted' = NothingPending) =>
          /\ last'.op # "save_messages" =>
                \A r \in uncommitted.messages : r \notin Rows(messages')
          /\ last'.op # "save_links" =>
                \A r \in uncommitted.links : r \notin Rows(links')]_vars

(***************************************************************************)
(* Claims about extract_links.                                             *)
(***************************************************************************)
\* The URL lower-cased, without the slashes at its ends.
NormalForm(url) == Lower(StripSlashes(url))

\* C10: no two records of extract_links have URLs of the same normalized form,
\* and a text that is one URL twice yields exactly one record.
C10_NoDuplicateRecords ==
    /\ \A i, j \in 1..Len(results) :
          NormalForm(results[i].url) = NormalForm(results[j].url) => i = j
    /\ pc >= 5 =>
          /\ results = extract_links(message_dict, raw_message)
          /\ \A w \in UrlWords :
                (message_dict.text = Join(<<w, w>>) /\ ~raw_message.some)
                    => Len(results) = 1

\* extract_links returned one record for a text of two spellings of a URL and
\* a button with a third.
C10_Witness ==
    /\ pc = 5
    /\ Len(results) = 1
    /\ message_dict.text = Join(<<UrlX, UrlXUpper>>)
    /\ Len(FindAll(message_dict.text)) = 2
    /\ raw_message.some
    /\ raw_message.val.reply_markup = Some(<<<<Button(Some(UrlXSlash), <<"open">>)>>>>)

\* What the five methods yield for the message, in the fixed order
\* entity_texturl, entity_url, regex, button, webpage_preview.
FindsInOrder ==
    Method1Finds(message_dict, raw_message) \o Method2Finds(message_dict, raw_message)
        \o Method3Finds(message_dict, raw_message)
        \o Method4Finds(message_dict, raw_message)
        \o Method5Finds(message_dict, raw_message)

\* The first of fs whose URL has the normalized form of url.
FirstOf(fs, url) ==
    fs[CHOOSE i \in 1..Len(fs) :
          /\ NormalForm(fs[i].url) = NormalForm(url)
          /\ \A j \in 1..(i - 1) : NormalForm(fs[j].url) # NormalForm(url)]

SameForm(fs, url) == \E i \in 1..Len(fs) : NormalForm(fs[i].url) = NormalForm(url)

\* C11: a returned record carries the source and anchor_text of the earliest
\* method, in the fixed order, that yields a URL of its normalized form; a URL
\* a hyperlink-span entity and the regex both yield is never returned as "regex".
C11_EarliestMethodWins ==
    pc >= 5 =>
        \A i \in 1..Len(results) :
            /\ SameForm(FindsInOrder, results[i].url)
            /\ results[i].source = FirstOf(FindsInOrder, results[i].url).source
            /\ results[i].anchor_text = FirstOf(FindsInOrder, results[i].url).anchor
            /\ SameForm(Method1Finds(message_dict, raw_message), results[i].url)
                  => results[i].source = "entity_texturl"

\* A URL that a hyperlink-span entity, the regex and a button all yield was
\* returned once, as the entity's.
C11_Witness ==
    /\ pc = 5
    /\ \E i \in 1..Len(results) :
          /\ results[i].source = "entity_texturl"
          /\ results[i].anchor_text = Some(<<"http://">>)
          /\ SameForm(Method3Finds(message_dict, raw_message), results[i].url)
          /\ SameForm(Method4Finds(message_dict, raw_message), results[i].url)

\* The URLs of m from position i on whose normalized form no earlier one has.
RECURSIVE KeepFirst(_, _)
KeepFirst(m, i) ==
    IF i > Len(m) THEN <<>>
    ELSE (IF \E j \in 1..(i - 1) : NormalForm(m[j]) = NormalForm(m[i])
          THEN <<>> ELSE <<m[i]>>) \o KeepFirst(m, i + 1)

DropOneSlash(url) ==
    IF url = <<>> THEN url
    ELSE LET t == url[Len(url)]
         IN IF t = "/" THEN SubSeq(url, 1, Len(url) - 1)
            ELSE IF t = "http://" THEN [url EXCEPT ![Len(url)] = "http:/"]
            ELSE IF t = "HTTP://" THEN [url EXCEPT ![Len(url)] = "HTTP:/"]
            ELSE url

\* The normalized URL as the claim states it.
OneSlashForm(url) == Lower(DropOneSlash(url))

\* C13: two URLs of one message collapse to one record if and only if their
\* lower-cased forms are equal after removing at most one trailing "/" from
\* each: the records have pairwise different such forms, and every such form
\* among the URLs the methods yield has its record.
C13_OneTrailingSlash ==
    pc >= 5 =>
        /\ \A i, j \in 1..Len(results) :
              OneSlashForm(results[i].url) = OneSlashForm(results[j].url) => i = j
        /\ \A k \in 1..Len(FindsInOrder) :
              \E i \in 1..Len(results) :
                  OneSlashForm(results[i].url) = OneSlashForm(FindsInOrder[k].url)

\* C14: the url of every returned record is, token for token, the string of
\* the first find of its normalized form, and the row save_links stores for
\* the record holds the same string.
C14_UrlOriginExact ==
    /\ pc >= 5 =>
          \A i \in 1..Len(results) :
              /\ SameForm(FindsInOrder, results[i].url)
              /\ results[i].url = FirstOf(FindsInOrder, results[i].url).url
    /\ pc = 6 =>
          /\ \A i \in 1..Len(results) :
                \E r \in Rows(links) :
                    /\ r.url = FirstOf(FindsInOrder, results[i].url).url
                    /\ r.source = results[i].source
          /\ \A r \in Rows(links) :
                \E i \in 1..Len(results) : r.url = results[i].url

\* A URL in capitals with a trailing-slash spelling after it was returned and
\* stored as it was first written.
C14_Witness ==
    /\ pc = 6
    /\ Len(results) = 1
    /\ results[1].url = UrlXUpper
    /\ \E k \in 1..Len(FindsInOrder) : FindsInOrder[k].url = UrlXSlash
    /\ \E r \in Rows(links) : r.url = UrlXUpper

\* The network location without a leading "www.".
WithoutLeadingWww(netloc) ==
    IF netloc # <<>> /\ Head(netloc) = "www." THEN Tail(netloc) ELSE netloc

\* C15: the domain of a record is the network location of its URL with a
\* leading "www." removed and nothing else; a "www." elsewhere is kept.
C15_LeadingWwwOnly ==
    \A i \in 1..Len(results) :
        ~UrlparseRaises(results[i].url)
            => results[i].domain = WithoutLeadingWww(Netloc(results[i].url))

\* The URL has no host urlparse can give: no scheme and "//", or a network
\* location urlparse raises on.
NoHost(url) == Netloc(url) = <<>> \/ UrlparseRaises(url)

\* C16: a URL without a parseable host does not abort extract_links: every URL
\* the methods yield has the record of its normalized form, and the record of
\* a URL without a host has the domain "".
C16_UnparseableKept ==
    pc >= 5 =>
        /\ \A k \in 1..Len(FindsInOrder) :
              \E i \in 1..Len(results) :
                  NormalForm(results[i].url) = NormalForm(FindsInOrder[k].url)
        /\ \A i \in 1..Len(results) :
              NoHost(results[i].url) => results[i].domain = <<>>

\* The buttons "http://x" and "not a url" and a preview of "http://[x" gave
\* three records, the last two without a domain.
C16_Witness ==
    /\ pc = 5
    /\ Len(results) = 3
    /\ results[1].url = UrlX /\ results[1].domain = <<"x">>
    /\ results[2].url = <<"not", " ", "a", " ", "url">> /\ results[2].domain = <<>>
    /\ results[3].url = <<"http://", "[", "x">> /\ results[3].domain = <<>>
    /\ UrlparseRaises(results[3].url)

\* C17: a message fetch_messages yields with has_link true has at least one
\* record of extract_links.
C17_FlagImpliesRecord ==
    (pc >= 5 /\ raw_message.some /\ message_dict.has_link) => Len(results) >= 1

\* C18: a message fetch_messages yields for which extract_links returns at
\* least one record has has_link true.
C18_RecordImpliesFlag ==
    (pc >= 5 /\ raw_message.some /\ Len(results) >= 1) => message_dict.has_link

(***************************************************************************)
(* Claims about the store.                                                 *)
(***************************************************************************)
Copies(bag, r) == IF r \in BagToSet(bag) THEN bag[r] ELSE 0

\* C1: in every reachable state the messages table holds at most one row for
\* each (channel_name, message_id) pair.
C1_UniqueMessages ==
    \A r1 \in Rows(messages) :
        /\ messages[r1] = 1
        /\ \A r2 \in Rows(messages) :
              (r1.channel_name = r2.channel_name /\ r1.message_id = r2.message_id)
                  => r1 = r2

\* save_messages was given rows it did not insert, and both ids of the main
\* channel are stored.
C1_Witness ==
    /\ last.op = "save_messages"
    /\ last.ret < last.n
    /\ \A id \in IdsOf(MainChannel) :
          \E r \in Rows(messages) : r.channel_name = MainChannel /\ r.message_id = id

\* C2: saving a batch a second time returns 0 and leaves the stored rows, and
\* so the row counts of get_messages and get_links, as the first call left them.
C2_Idempotent ==
    /\ \A b \in MsgBatches :
          LET first == SaveMessagesResult(messages, b)
              second == SaveMessagesResult(first.bag, b)
          IN second.rowcount = 0 /\ second.bag = first.bag
    /\ \A b \in LinkBatches :
          LET first == SaveLinksResult(links, b)
              second == SaveLinksResult(first.bag, b)
          IN second.rowcount = 0 /\ second.bag = first.bag

\* A save_messages call of a non-empty batch returned 0: all of it was stored.
C2_Witness ==
    /\ last.op = "save_messages"
    /\ last.n > 0
    /\ last.ret = 0
    /\ \E b \in MsgBatches :
          /\ Len(b) = last.n
          /\ SaveMessagesResult(messages, b).rowcount = 0
          /\ SaveMessagesResult(EmptyBag, b).rowcount > 0

\* C3: save_messages returns the number of rows it added to the table.
C3_ReturnsInserted ==
    [][last'.op = "save_messages"
         => last'.ret = BagCardinality(messages') - BagCardinality(messages)]_vars

\* The kinds of rows of a batch against a table: new, stored, repeated in the batch.
IsStored(bag, m) ==
    \E r \in Rows(bag) : UniqueKey("messages", r) = UniqueKey("messages", MessageRow(m))
IsRepeat(b, i) ==
    \E j \in 1..(i - 1) :
        UniqueKey("messages", MessageRow(b[j])) = UniqueKey("messages", MessageRow(b[i]))

\* After a save_messages call there is a batch of a new row, a stored row and a
\* repetition of the new row, for which save_messages returns 1.
C3_Witness ==
    /\ last.op = "save_messages"
    /\ \E b \in MsgBatches :
          /\ Len(b) = 3
          /\ \E i \in 1..3 : IsStored(messages, b[i])
          /\ \E i \in 1..3 : ~IsStored(messages, b[i]) /\ ~IsRepeat(b, i)
          /\ \E i \in 1..3 : ~IsStored(messages, b[i]) /\ IsRepeat(b, i)
          /\ SaveMessagesResult(messages, b).rowcount = 1

\* C4: save_messages leaves every stored row as it is, whatever the batch carries
\* under the same key.
C4_FirstWriteWins ==
    [][last'.op = "save_messages"
         => \A r \in Rows(messages) : Copies(messages', r) = messages[r]]_vars

\* A row is stored, and a call with the same key and another text, date, sender
\* and has_link was ignored.
C4_Witness ==
    /\ last.op = "save_messages"
    /\ last.n = 1
    /\ last.ret = 0
    /\ \E r \in Rows(messages) : \E m \in MsgDicts(MainChannel) :
          /\ UniqueKey("messages", MessageRow(m)) = UniqueKey("messages", r)
          /\ MessageRow(m).message_text # r.message_text
          /\ MessageRow(m).message_date # r.message_date
          /\ MessageRow(m).sender_id # r.sender_id
          /\ MessageRow(m).has_link # r.has_link
          /\ SaveMessagesResult(messages, <<m>>).bag = messages

Triple(r) == <<r.channel_name, r.message_id, r.url>>

\* The first record of a batch that carries the triple of its i-th record.
FirstWithTriple(b, i) ==
    b[CHOOSE j \in 1..i :
        /\ Triple(LinkRow(b[j])) = Triple(LinkRow(b[i]))
        /\ \A k \in 1..(j - 1) : Triple(LinkRow(b[k])) # Triple(LinkRow(b[i]))]

\* C5: the links table holds at most one row per (channel_name, message_id, url),
\* and a triple saved again, in the same batch or a later one, keeps the row of
\* its first occurrence, source and anchor_text included.
C5_UniqueLinksFirstKept ==
    /\ \A r1 \in Rows(links) :
          /\ links[r1] = 1
          /\ \A r2 \in Rows(links) : Triple(r1) = Triple(r2) => r1 = r2
    /\ \A b \in LinkBatches :
          LET after == SaveLinksResult(links, b).bag
          IN \A i \in 1..Len(b) :
                LET stored == {r \in Rows(links) : Triple(r) = Triple(LinkRow(b[i]))}
                    now == {r \in Rows(after) : Triple(r) = Triple(LinkRow(b[i]))}
                IN /\ now # {}
                   /\ \A r \in now :
                         IF stored # {} THEN r \in stored
                         ELSE /\ r.source = FirstWithTriple(b, i).source
                              /\ r.anchor_text = FirstWithTriple(b, i).anchor_text

\* save_links was given one triple twice, with two sources, and stored the first;
\* the same message has a second URL stored.
C5_Witness ==
    /\ last.op = "save_links"
    /\ last.n = 2
    /\ last.ret = 1
    /\ \E b \in LinkBatches :
          /\ Len(b) = 2
          /\ Triple(LinkRow(b[1])) = Triple(LinkRow(b[2]))
          /\ b[1].source # b[2].source
          /\ b[1].anchor_text # b[2].anchor_text
          /\ LinkRow(b[1]) \in Rows(links)
          /\ LinkRow(b[2]) \notin Rows(links)
          /\ \E r \in Rows(links) :
                /\ r.channel_name = b[1].channel_name
                /\ r.message_id = b[1].message_id
                /\ r.url # b[1].url

\* The filters the views are asked with.
LinkFilters ==
    {"", "All", MainChannel, HtmlChannel} \X {<<>>, <<"All">>, <<"x">>}
        \X {<<>>, <<"/">>, <<"X">>}

\* The stored links that pass a filter.
Hits(f) == {r \in Rows(links) : LinkMatches(r, f[1], f[2], f[3])}

\* The day a message_date string names, as days since 2024-01-01; a link
\* without a date ("") counts as earlier than any date.
Day(d) ==
    CASE d = "" -> 0
      [] d = "15.01.2024 10:00:00" -> 15
      [] d = "01.02.2025 10:00:00" -> 398
      [] d = "2026-01-01" -> 732
      [] d = "2026-01-02" -> 733
      [] d = "2026-01-03" -> 734
      [] d = "2026-01-04" -> 735
      [] d = "2026-01-05" -> 736

\* C19: get_links with unique_only = True returns exactly one row per distinct
\* url among the stored links that match the filters, and the message_date of
\* that row is the earliest message_date among those links.
C19_UniqueViewEarliest ==
    \A f \in LinkFilters :
        LET view == get_links_unique(f[1], f[2], f[3])
        IN /\ \A r \in Hits(f) : \E v \in view : r.url \in {x.url : x \in v.from}
           /\ \A v \in view :
                 /\ v.from # {} /\ v.from \subseteq Hits(f)
                 /\ \A a, b \in v.from : a.url = b.url
                 /\ \A w \in view :
                       (\E a \in v.from, b \in w.from : a.url = b.url) => v = w
                 /\ \A a \in v.from, r \in Hits(f) :
                       r.url = a.url => Day(v.message_date) <= Day(r.message_date)

\* C20: the unique-links view groups by the url string as stored: stored links
\* whose URLs differ, if only by a trailing "/", are in different rows of it.
C20_GroupsByRawUrl ==
    \A f \in LinkFilters :
        LET view == get_links_unique(f[1], f[2], f[3])
        IN /\ \A r1, r2 \in Hits(f) :
                 r1.url # r2.url =>
                     \E v1, v2 \in view :
                         /\ v1 # v2
                         /\ r1.url \in {x.url : x \in v1.from}
                         /\ r2.url \in {x.url : x \in v2.from}
           /\ Cardinality(view) = Cardinality({r.url : r \in Hits(f)})

\* "http://x" and "http://x/" are stored, the first for several messages, and
\* the view without filters has the two rows.
C20_Witness ==
    /\ \E r \in Rows(links) : r.url = <<"http://", "x">> /\ r.message_id = 2
    /\ \E r \in Rows(links) : r.url = <<"http://", "x">> /\ r.channel_name = OtherChannel
    /\ \E r \in Rows(links) : r.url = <<"http://", "x", "/">>
    /\ Cardinality(get_links_unique("", <<>>, <<>>)) = 2

\* The rows of the channels table with a name.
ChannelRowsOf(bag, ch) == {r \in Rows(bag) : r.channel_name = ch}

\* C21: the channels table holds at most one row per channel_name, and an
\* upsert_channel call leaves for its name the one row with the display_name,
\* member_count, last_scraped, message_count and link_count it was given,
\* whatever was stored before; the rows of other names stay.
C21_UpsertLatestWins ==
    /\ [](\A r \in Rows(channels) :
            channels[r] = 1 /\ ChannelRowsOf(channels, r.channel_name) = {r})
    /\ [][\A info \in ChannelInfosVaried :
            upsert_channel(info) =>
                /\ \A r \in ChannelRowsOf(channels', info.channel_name) :
                      /\ r.display_name = info.display_name
                      /\ r.member_count = info.member_count
                      /\ r.last_scraped = info.last_scraped
                      /\ r.message_count = info.message_count
                      /\ r.link_count = info.link_count
                /\ Cardinality(ChannelRowsOf(channels', info.channel_name)) = 1
                /\ \A ch \in Channels \ {info.channel_name} :
                      ChannelRowsOf(channels', ch) = ChannelRowsOf(channels, ch)]_vars

\* The main channel's row holds the second dict and the other channel has its
\* row; the last call was an upsert of the main channel.
C21_Witness ==
    /\ last.op = "upsert_channel" /\ last.ch = MainChannel
    /\ \E r \in ChannelRowsOf(channels, MainChannel) :
          r.display_name = "Renamed" /\ r.message_count = 2 /\ r.link_count = 1
    /\ ChannelRowsOf(channels, OtherChannel) # {}

\* C6: get_last_message_id(c) is the largest message_id stored for c, and 0 when
\* nothing is stored for c.
C6_LastMessageId ==
    \A ch \in Channels \cup {"unknown"} :
        LET ids == {r.message_id : r \in {x \in Rows(messages) : x.channel_name = ch}}
            got == get_last_message_id(ch)
        IN IF ids = {} THEN got = 0
           ELSE got \in ids /\ \A i \in ids : i <= got

\* The other channel was just cleared and the main channel holds ids 1 and 2.
C6_Witness ==
    /\ last.op = "clear_channel"
    /\ last.ch = OtherChannel
    /\ last.n > 0
    /\ get_last_message_id(OtherChannel) = 0
    /\ get_last_message_id(MainChannel) = 2
    /\ \E r \in Rows(messages) : r.channel_name = MainChannel /\ r.message_id = 1

\* C8: after clear_channel(c) no table holds a row of c, and the queries filtered
\* to c return nothing.
C8_ChannelPurged ==
    last.op = "clear_channel" =>
        /\ \A r \in Rows(messages) \cup Rows(links) \cup Rows(channels) :
              r.channel_name # last.ch
        /\ get_messages(last.ch, <<>>, NoneV) = EmptyBag
        /\ get_links(last.ch, <<>>, <<>>) = EmptyBag
        /\ \A r \in Rows(get_channel_stats) : r.channel_name # last.ch

\* clear_channel deleted rows of the main channel while the other channel has some.
C8_Witness ==
    /\ last.op = "clear_channel"
    /\ last.ch = MainChannel
    /\ last.n >= 4
    /\ messages # EmptyBag

\* C9: clear_channel(c) leaves every row of another channel as it was.
C9_OtherChannelsKept ==
    [][last'.op = "clear_channel"
         => \A r \in Rows(messages) \cup Rows(messages')
                    \cup Rows(links) \cup Rows(links')
                    \cup Rows(channels) \cup Rows(channels') :
              r.channel_name # last'.ch
                  => /\ Copies(messages', r) = Copies(messages, r)
                     /\ Copies(links', r) = Copies(links, r)
                     /\ Copies(channels', r) = Copies(channels, r)]_vars

\* The other channel was cleared of rows and the main channel has rows in all
\* three tables.
C9_Witness ==
    /\ last.op = "clear_channel"
    /\ last.ch = OtherChannel
    /\ last.n >= 3
    /\ \E r \in Rows(messages) : r.channel_name = MainChannel
    /\ \E r \in Rows(links) : r.channel_name = MainChannel
    /\ \E r \in Rows(channels) : r.channel_name = MainChannel

====
